---- MODULE Spec2Model ----
(***************************************************************************)
(* Model of qt_property_widgets: the two-way binding between a property    *)
(* and the controls that edit it (widgets.py, WidgetSetterProperty and     *)
(* PropertyWidget.from_property), the control registry, the list editor,   *)
(* the form and its action sections, the dictionary serializer, property   *)
(* reflection and action discovery (utilities.py), and the expander list   *)
(* (expander.py).                                                          *)
(*                                                                         *)
(* Every handler of the library runs synchronously on one thread, signals  *)
(* included: an emitted signal calls its slots before emit() returns.  An  *)
(* action of this module is therefore one whole top-level call, with the   *)
(* nested calls it makes computed by recursive operators.                  *)
(***************************************************************************)
EXTENDS Integers, Sequences, FiniteSets, TLC

\* ------------------------------------------------------------------------
\* Bounds of the model
\* ------------------------------------------------------------------------

\* number of controls ever created in one behaviour of the binding model
MaxWidgets == 2

\* number of calls the application makes of a spin box's min, max or
\* decimals setter
MaxConfigs == 1

\* nesting depth of wrapped_setter calls the model follows before it gives up
MaxDepth == 8

\* longest list a list-valued property holds
MaxLen == 1

\* ------------------------------------------------------------------------
\* Program constants
\* ------------------------------------------------------------------------

\* QDoubleSpinBox defaults (SpinboxWidget.__init__ sets neither range nor
\* decimals): range [0.00, 99.99], two decimals.  Numbers are in thousandths.
SpinMin == 0
SpinMax == 99990
SpinStep == 10

\* QSlider defaults (the hidden slider of a SpinboxWidget is given a range
\* only by the min and max parameters of the property; none is declared
\* here): range [0, 99], value 0.  The slider counts hundredths.
SliderMin == 0
SliderMax == 99

\* the hundredths n below 10000 for which the float product (n / 100) * 100
\* falls just below n, so that int() of it is n - 1
TruncatedLow ==
    {29, 57, 58, 113, 114, 115, 116, 201, 203, 205, 207, 226, 228, 230,
     232, 251, 253, 255, 402, 406, 410, 414, 427, 431, 435, 439, 452, 456,
     460, 464, 477, 481, 485, 489, 502, 506, 510, 803, 804, 812, 820, 828,
     829, 837, 845, 853, 854, 862, 870, 878, 879, 887, 895, 903, 904, 912,
     920, 928, 929, 937, 945, 953, 954, 962, 970, 978, 979, 987, 995, 1003,
     1004, 1012, 1020, 1606, 1608, 1615, 1624, 1631, 1633, 1640, 1649,
     1656, 1658, 1665, 1674, 1681, 1683, 1690, 1699, 1706, 1708, 1715,
     1724, 1731, 1733, 1740, 1749, 1756, 1758, 1765, 1774, 1781, 1783,
     1790, 1799, 1806, 1808, 1815, 1824, 1831, 1833, 1840, 1849, 1856,
     1858, 1865, 1874, 1881, 1883, 1890, 1899, 1906, 1908, 1915, 1924,
     1931, 1933, 1940, 1949, 1956, 1958, 1965, 1974, 1981, 1983, 1990,
     1999, 2006, 2008, 2015, 2024, 2031, 2033, 2040, 3205, 3212, 3216,
     3223, 3230, 3237, 3241, 3248, 3255, 3262, 3266, 3273, 3280, 3287,
     3291, 3298, 3305, 3312, 3316, 3323, 3330, 3337, 3341, 3348, 3355,
     3362, 3366, 3373, 3380, 3387, 3391, 3398, 3405, 3412, 3416, 3423,
     3430, 3437, 3441, 3448, 3455, 3462, 3466, 3473, 3480, 3487, 3491,
     3498, 3505, 3512, 3516, 3523, 3530, 3537, 3541, 3548, 3555, 3562,
     3566, 3573, 3580, 3587, 3591, 3598, 3605, 3612, 3616, 3623, 3630,
     3637, 3641, 3648, 3655, 3662, 3666, 3673, 3680, 3687, 3691, 3698,
     3705, 3712, 3716, 3723, 3730, 3737, 3741, 3748, 3755, 3762, 3766,
     3773, 3780, 3787, 3791, 3798, 3805, 3812, 3816, 3823, 3830, 3837,
     3841, 3848, 3855, 3862, 3866, 3873, 3880, 3887, 3891, 3898, 3905,
     3912, 3916, 3923, 3930, 3937, 3941, 3948, 3955, 3962, 3966, 3973,
     3980, 3987, 3991, 3998, 4005, 4012, 4016, 4023, 4030, 4037, 4041,
     4048, 4055, 4062, 4066, 4073, 4080, 4087, 4091, 6407, 6410, 6421,
     6424, 6432, 6435, 6446, 6449, 6457, 6460, 6471, 6474, 6482, 6485,
     6496, 6499, 6507, 6510, 6521, 6524, 6532, 6535, 6546, 6549, 6557,
     6560, 6571, 6574, 6582, 6585, 6596, 6599, 6607, 6610, 6621, 6624,
     6632, 6635, 6646, 6649, 6657, 6660, 6671, 6674, 6682, 6685, 6696,
     6699, 6707, 6710, 6721, 6724, 6732, 6735, 6746, 6749, 6757, 6760,
     6771, 6774, 6782, 6785, 6796, 6799, 6807, 6810, 6821, 6824, 6832,
     6835, 6846, 6849, 6857, 6860, 6871, 6874, 6882, 6885, 6896, 6899,
     6907, 6910, 6921, 6924, 6932, 6935, 6946, 6949, 6957, 6960, 6971,
     6974, 6982, 6985, 6996, 6999, 7007, 7010, 7021, 7024, 7032, 7035,
     7046, 7049, 7057, 7060, 7071, 7074, 7082, 7085, 7096, 7099, 7107,
     7110, 7121, 7124, 7132, 7135, 7146, 7149, 7157, 7160, 7171, 7174,
     7182, 7185, 7196, 7199, 7207, 7210, 7221, 7224, 7232, 7235, 7246,
     7249, 7257, 7260, 7271, 7274, 7282, 7285, 7296, 7299, 7307, 7310,
     7321, 7324, 7332, 7335, 7346, 7349, 7357, 7360, 7371, 7374, 7382,
     7385, 7396, 7399, 7407, 7410, 7421, 7424, 7432, 7435, 7446, 7449,
     7457, 7460, 7471, 7474, 7482, 7485, 7496, 7499, 7507, 7510, 7521,
     7524, 7532, 7535, 7546, 7549, 7557, 7560, 7571, 7574, 7582, 7585,
     7596, 7599, 7607, 7610, 7621, 7624, 7632, 7635, 7646, 7649, 7657,
     7660, 7671, 7674, 7682, 7685, 7696, 7699, 7707, 7710, 7721, 7724,
     7732, 7735, 7746, 7749, 7757, 7760, 7771, 7774, 7782, 7785, 7796,
     7799, 7807, 7810, 7821, 7824, 7832, 7835, 7846, 7849, 7857, 7860,
     7871, 7874, 7882, 7885, 7896, 7899, 7907, 7910, 7921, 7924, 7932,
     7935, 7946, 7949, 7957, 7960, 7971, 7974, 7982, 7985, 7996, 7999,
     8007, 8010, 8021, 8024, 8032, 8035, 8046, 8049, 8057, 8060, 8071,
     8074, 8082, 8085, 8096, 8099, 8107, 8110, 8121, 8124, 8132, 8135,
     8146, 8149, 8157, 8160, 8171, 8174, 8182, 8185}

\* what the min, max and decimals setters of a spin box are called with
\* (decimals: the two decimals the spin box has anyway)
MinValues == {1000}
MaxValues == {500}
DecimalsValues == {2}

\* the instances of the class that declares the property
Objs == {"o1"}
Widgets == 1..MaxWidgets

\* The control class from_property resolves for the property; every control
\* of one property has the same class, and the same configuration until the
\* application changes the range of one of them.
\*   TextWidget       setter emits value_changed when the text changes
\*   BoolWidget       setter always emits value_changed
\*   SpinboxWidget    setter rounds and clamps, emits when the number changes
\*                    and then feeds the number through its hidden slider
\*   PathWidget       setter never emits
\*   ColorWidget      setter stores the value and always emits value_changed
\*                    with it (the setter of FlagsWidget does the same)
\*   ValueListWidget  list[str] editor: one TextWidget per row
Kinds == {"TextWidget", "BoolWidget", "SpinboxWidget", "PathWidget",
          "ColorWidget", "ValueListWidget"}

\* row texts: 0 is the empty string (what a new TextWidget displays)
Texts == {0, 1}

SeqsUpTo(S, n) == UNION {[1..m -> S] : m \in 0..n}

\* values code may assign to the property
CodeValues(k) ==
    CASE k = "SpinboxWidget" -> {-5000, 0, 1234, 150000}
      [] k = "BoolWidget" -> {0, 1}
      [] k = "ValueListWidget" -> SeqsUpTo({1}, MaxLen)
      [] OTHER -> {0, 1, 2}

\* values code may assign to a control directly (`widget.value = v`)
WidgetValues(k) ==
    CASE k = "SpinboxWidget" -> {1234}
      [] k = "BoolWidget" -> {0, 1}
      [] k = "ValueListWidget" -> {<<1>>}
      [] OTHER -> {1}

RemoveAt(s, i) == SubSeq(s, 1, i - 1) \o SubSeq(s, i + 1, Len(s))

\* values one user action can make a control that displays `cur` display:
\* for a list editor, "Add value" (on_add_button_clicked appends item_class(),
\* the empty string), an edit of one row, or a row's delete button
UiValues(k, cur) ==
    CASE k = "SpinboxWidget" -> {0, 1230, 99990} \ {cur}
      [] k = "BoolWidget" -> {0, 1} \ {cur}
      [] k = "ValueListWidget" ->
            (IF Len(cur) < MaxLen THEN {Append(cur, 0)} ELSE {})
            \cup UNION {{[cur EXCEPT ![i] = x] : x \in Texts \ {cur[i]}} :
                        i \in 1..Len(cur)}
            \cup {RemoveAt(cur, i) : i \in 1..Len(cur)}
      [] OTHER -> {0, 1, 2} \ {cur}

\* what a freshly constructed control displays
DefaultShown(k) == IF k = "ValueListWidget" THEN << >> ELSE 0

VARIABLES
    kind,       \* control class of the property
    hasSetter,  \* the raw property has a setter (fset is not None)
    attr,       \* attr[o]: the value stored behind the property of instance o
    wrapped,    \* the class attribute is a WidgetSetterProperty
    wrapCount,  \* number of WidgetSetterProperty objects constructed
    sourceProp, \* what the wrapper's source_prop is: "none", "raw", "wrapper"
    binds,      \* binds[o]: the wrapper's list of controls bound to instance o
    conn,       \* controls whose value_changed is connected to wrapped_setter
    wstate,     \* "none", "alive", "pending" (deleteLater called), "destroyed"
    shown,      \* shown[w]: the value control w displays
    slider,     \* slider[w]: where the hidden slider of spin box w stands
    ranges,     \* ranges[w]: the range of spin box w (lo, hi, in thousandths)
                \* and of its slider (slo, shi, in hundredths)
    configs,    \* number of calls of a min, max or decimals setter so far
    last        \* what the last top-level call did

varsBinding == <<kind, hasSetter, attr, wrapped, wrapCount, sourceProp, binds,
                 conn, wstate, shown, slider, ranges, configs, last>>

\* every control of the model is created for the one instance
owner(w) == "o1"

\* ------------------------------------------------------------------------
\* Controls
\* ------------------------------------------------------------------------

Clamp(v, lo, hi) == IF v < lo THEN lo ELSE IF v > hi THEN hi ELSE v

\* QDoubleSpinBox.setValue: round to the configured decimals, then bound
RoundStep(v) == ((v + (SpinStep \div 2)) \div SpinStep) * SpinStep

\* QDoubleSpinBox.setValue(v) of a spin box with range [lo, hi]
Bounded(v, lo, hi) == Clamp(RoundStep(v), lo, hi)

\* the value the editing element of a scalar control of class k takes when
\* `widget.value = v` hands it v, for a spin box with the default range (the
\* slider feedback that follows is spinbox_setValue below)
Displayed(k, v) ==
    IF k = "SpinboxWidget" THEN Bounded(v, SpinMin, SpinMax) ELSE v

\* int(x * 10**self.decimals) for a number x of the spin box
ToSlider(v) ==
    LET n == v \div SpinStep
    IN  IF n \in TruncatedLow THEN n - 1 ELSE n

\* int(self.spinbox.value() * 10**self.decimals) for a displayed number v,
\* bounded as QSlider.setValue bounds it in a slider of range [lo, hi]
SliderTarget(v, lo, hi) == Clamp(ToSlider(v), lo, hi)

\* the ranges of a new SpinboxWidget
DefaultRange == [lo |-> SpinMin, hi |-> SpinMax, slo |-> SliderMin, shi |-> SliderMax]

Min2(a, b) == IF a < b THEN a ELSE b
Max2(a, b) == IF a > b THEN a ELSE b

\* whether the value setter of scalar class k emits value_changed
SetterEmits(k, old, new) ==
    CASE k \in {"BoolWidget", "ColorWidget"} -> TRUE
      [] k = "PathWidget" -> FALSE
      [] OTHER -> old # new

\* check_lists(a, b) inside wrapped_setter: the length test is on its
\* arguments, the element test on current_value and value of the enclosing
\* call (zip(..., strict=True) raises ValueError when one runs out first)
RECURSIVE zip_all_equal(_, _, _)
zip_all_equal(cur, v, j) ==
    IF j > Len(cur) /\ j > Len(v) THEN "true"
    ELSE IF j > Len(cur) \/ j > Len(v) THEN "ValueError"
    ELSE IF cur[j] # v[j] THEN "false"
    ELSE zip_all_equal(cur, v, j + 1)

check_lists(a, b, cur, v) ==
    IF Len(a) # Len(b) THEN "false" ELSE zip_all_equal(cur, v, 1)

\* ------------------------------------------------------------------------
\* The effect record threaded through one top-level call
\* ------------------------------------------------------------------------

NoCounts == [w \in Widgets |-> 0]

\* calls: the values the raw setter was called with, in order
\* changed: emissions of the instance's `changed` signal
\* pushes[w]: assignments `widget.value = value` made by wrapped_setter
\* reads[w]: reads of widget.value made by wrapped_setter
\* emits[w]: emissions of w.value_changed
\* exc: an exception is propagating; slotErrors: exceptions raised in slots
Begin == [attr |-> attr, shown |-> shown, slider |-> slider, ranges |-> ranges,
          calls |-> << >>, changed |-> 0,
          pushes |-> NoCounts, reads |-> NoCounts, emits |-> NoCounts,
          exc |-> FALSE, slotErrors |-> 0, overflow |-> FALSE]

\* WidgetSetterProperty.__init__ passes fset=self.wrapped_setter to property:
\* the wrapper's own fset is never None, whatever the raw property has
WrapperHasFset(rawHasSetter) == TRUE

\* a wrapped_setter that never takes the early return
same_value_never(cur, v) == FALSE

\* wrapped_setter's test for a redundant write: current_value == value, or,
\* for a list, check_lists(current_value, value)
same_value(cur, v) ==
    \/ cur = v
    \/ kind = "ValueListWidget" /\ check_lists(cur, v, cur, v) = "true"

RECURSIVE wrapped_setter(_, _, _, _)
RECURSIVE push_to_widgets(_, _, _, _, _, _)
RECURSIVE add_items(_, _, _, _, _)
RECURSIVE spinbox_setValue(_, _, _, _)
RECURSIVE slider_setValue(_, _, _, _)
RECURSIVE call_slots(_, _, _, _, _)

\* how often w is in the list of controls bound to its instance
Bindings(w) ==
    Cardinality({i \in 1..Len(binds[owner(w)]) : binds[owner(w)][i] = w})

\* the number of slots bind() has connected to w.value_changed: bind appends
\* w to the bound list and connects a slot in the same call, and the slots
\* it connects to w.destroyed take w out of the list as often as it is there
Connections(w) == IF w \in conn THEN Bindings(w) ELSE 0

\* the slots of w.value_changed, n of them left to call
call_slots(st, w, v, n, d) ==
    IF n = 0 THEN st
    ELSE LET s2 == wrapped_setter(st, owner(w), v, d + 1)
             s3 == IF s2.exc
                   THEN [s2 EXCEPT !.exc = FALSE, !.slotErrors = @ + 1]
                   ELSE s2
         IN  call_slots(s3, w, v, n - 1, d)

\* value_changed.emit(v) of control w: calls the slots bind() connected; an
\* exception of a slot is reported and does not reach the emitter
emit_value_changed(st, w, v, d) ==
    call_slots([st EXCEPT !.emits[w] = @ + 1], w, v, Connections(w), d)

\* ValueListWidget.value setter, after the old rows are taken out: add_item
\* for v[i], v[i+1], ...  add_item connects the row's TextWidget to a slot
\* emitting the list's value_changed(self.value), sets the row's text, and
\* only then adds the row to the layout
add_items(st, w, v, i, d) ==
    IF i > Len(v) THEN st
    ELSE LET s1 == IF SetterEmits("TextWidget", 0, v[i])
                   THEN emit_value_changed(st, w, st.shown[w], d)
                   ELSE st
             s2 == [s1 EXCEPT !.shown[w] = Append(@, v[i])]
         IN  add_items(s2, w, v, i + 1, d)

\* self.spinbox.setValue(v) of SpinboxWidget w, and equally a number the
\* user enters: when the number changes, QDoubleSpinBox.valueChanged calls
\* its two slots in the order __init__ connected them.  The first emits
\* value_changed(self.value).  The second calls slider.setValue with the
\* number the spin box holds by then; a slider that moves emits valueChanged,
\* whose slot calls spinbox.setValue(slider.value() / 10**decimals).
spinbox_setValue(st, w, v, d) ==
    LET new == Bounded(v, st.ranges[w].lo, st.ranges[w].hi)
    IN  IF new = st.shown[w] THEN st
        ELSE LET s1 == [st EXCEPT !.shown[w] = new]
                 s2 == emit_value_changed(s1, w, s1.shown[w], d)
             IN  slider_setValue(s2, w, ToSlider(s2.shown[w]), d)

\* self.slider.setValue(t): the slider bounds t by its range, and when it
\* moves its valueChanged slot sets the spin box
slider_setValue(st, w, t, d) ==
    LET new == Clamp(t, st.ranges[w].slo, st.ranges[w].shi)
    IN  IF new = st.slider[w] THEN st
        ELSE spinbox_setValue([st EXCEPT !.slider[w] = new], w,
                              new * SpinStep, d)

\* QDoubleSpinBox.setMinimum / setMaximum / setDecimals end in setRange,
\* which bounds the value again and emits valueChanged when it changes
spinbox_setRange(st, w, lo, hi, d) ==
    spinbox_setValue([st EXCEPT !.ranges[w].lo = lo, !.ranges[w].hi = hi],
                     w, st.shown[w], d)

\* QAbstractSlider.setRange(lo, hi): the maximum is at least the minimum,
\* and the value is bounded again
slider_setRange(st, w, lo, hi, d) ==
    LET s1 == [st EXCEPT !.ranges[w].slo = lo, !.ranges[w].shi = Max2(lo, hi)]
    IN  slider_setValue(s1, w, s1.slider[w], d)

\* QAbstractSlider.setMinimum(lo) and setMaximum(hi)
slider_setMinimum(st, w, lo, d) ==
    slider_setRange(st, w, lo, Max2(st.ranges[w].shi, lo), d)

slider_setMaximum(st, w, hi, d) ==
    slider_setRange(st, w, Min2(st.ranges[w].slo, hi), hi, d)

\* `widget.value = v` for a control of the property's class
set_widget_value(st, w, v, d) ==
    IF kind = "ValueListWidget"
    THEN add_items([st EXCEPT !.shown[w] = << >>], w, v, 1, d)
    ELSE IF kind = "SpinboxWidget"
    THEN spinbox_setValue(st, w, v, d)
    ELSE LET old == st.shown[w]
             new == Displayed(kind, v)
             s1 == [st EXCEPT !.shown[w] = new]
         IN  IF SetterEmits(kind, old, new)
             THEN emit_value_changed(s1, w,
                                     IF kind = "BoolWidget" THEN v ELSE new, d)
             ELSE s1

\* the loop of wrapped_setter over self.binds.get(obj, []), from index i;
\* cur is the current_value the call read before the raw setter ran
push_to_widgets(st, o, v, cur, i, d) ==
    IF i > Len(binds[o]) THEN st
    ELSE LET w == binds[o][i]
             s1 == [st EXCEPT !.reads[w] = @ + 1]
             same == IF s1.shown[w] = v THEN "true"
                     ELSE IF kind = "ValueListWidget"
                          THEN check_lists(s1.shown[w], v, cur, v)
                          ELSE "false"
         IN  CASE same = "true" -> push_to_widgets(s1, o, v, cur, i + 1, d)
               [] same = "ValueError" -> [s1 EXCEPT !.exc = TRUE]
               [] OTHER ->
                    push_to_widgets(
                        set_widget_value([s1 EXCEPT !.pushes[w] = @ + 1], w, v, d),
                        o, v, cur, i + 1, d)

\* a wrapped_setter without the two tests for a redundant write: it stores
\* the value and assigns the first bound control, whatever either holds
wrapped_setter_unguarded(st, o, v, d) ==
    IF d > MaxDepth THEN [st EXCEPT !.overflow = TRUE]
    ELSE LET s1 == IF hasSetter
                   THEN [st EXCEPT !.attr[o] = v, !.calls = Append(@, v)]
                   ELSE st
             s2 == [s1 EXCEPT !.changed = @ + 1]
         IN  IF binds[o] = << >> THEN s2
             ELSE set_widget_value([s2 EXCEPT !.pushes[binds[o][1]] = @ + 1],
                                   binds[o][1], v, d)

wrapped_setter(st, o, v, d) ==
    IF d > MaxDepth THEN [st EXCEPT !.overflow = TRUE]
    ELSE LET cur == st.attr[o]
         IN  IF same_value(cur, v) THEN st
             ELSE LET s1 == IF hasSetter
                            THEN [st EXCEPT !.attr[o] = v,
                                            !.calls = Append(@, v)]
                            ELSE st
                      s2 == [s1 EXCEPT !.changed = @ + 1]
                  IN  push_to_widgets(s2, o, v, cur, 1, d)

\* ------------------------------------------------------------------------
\* Operations
\* ------------------------------------------------------------------------

Done(op, w, v, st, err) ==
    last' = [op |-> op, w |-> w, v |-> v, pre |-> attr["o1"],
             calls |-> st.calls, changed |-> st.changed,
             pushes |-> st.pushes, reads |-> st.reads, emits |-> st.emits,
             slotErrors |-> st.slotErrors, overflow |-> st.overflow,
             err |-> err]

FreshWidget(w) ==
    /\ wstate[w] = "none"
    /\ \A u \in Widgets : u < w => wstate[u] # "none"

\* WidgetSetterProperty.bind
bind(o, w) ==
    /\ binds' = [binds EXCEPT ![o] = Append(@, w)]
    /\ conn' = IF WrapperHasFset(hasSetter) THEN conn \cup {w} ELSE conn

\* PropertyWidget.from_property(prop, instance): `how` is what the caller
\* passes: the property's name, the raw property object, or the wrapper.
\* The control is created and takes the getter's value before it is bound:
\* what it emits then reaches no slot of the binding.
from_property(o, how) ==
    \E w \in Widgets :
        /\ FreshWidget(w)
        /\ how = "wrapper" => wrapped
        /\ \E st \in {set_widget_value(Begin, w, attr[o], 0)} :
           LET isWrapper == how = "wrapper" \/ (how = "name" /\ wrapped)
               found == ~wrapped
           IN  /\ wstate' = [wstate EXCEPT ![w] = "alive"]
               /\ shown' = st.shown
               /\ slider' = st.slider
               /\ IF isWrapper
                  THEN /\ bind(o, w)
                       /\ UNCHANGED <<wrapped, wrapCount, sourceProp>>
                       /\ Done("from_property", w, how, st, "none")
                  ELSE IF found
                  THEN /\ wrapped' = TRUE
                       /\ wrapCount' = wrapCount + 1
                       /\ sourceProp' = "raw"
                       /\ bind(o, w)
                       /\ Done("from_property", w, how, st, "none")
                  ELSE /\ UNCHANGED <<wrapped, wrapCount, sourceProp, binds, conn>>
                       /\ Done("from_property", w, how, st, "AttributeError")
        /\ UNCHANGED <<kind, hasSetter, attr, ranges, configs>>

\* prop.bind(instance, w) called by the application for a control it
\* holds, one that is bound already (while the list of bound controls is
\* shorter than MaxWidgets)
BindAgain(o, w) ==
    /\ wrapped
    /\ wstate[w] = "alive"
    /\ Bindings(w) >= 1
    /\ Len(binds[o]) < MaxWidgets
    /\ bind(o, w)
    /\ Done("bind", w, 0, Begin, "none")
    /\ UNCHANGED <<kind, hasSetter, attr, wrapped, wrapCount, sourceProp, wstate,
                   shown, slider, ranges, configs>>

\* the application makes a control of the property's class, assigns it v
\* and calls prop.bind(instance, control): the control is bound without
\* being given the property's value
BindNew(o, v) ==
    \E w \in Widgets :
        /\ wrapped
        /\ FreshWidget(w)
        /\ v \in WidgetValues(kind)
        /\ \E st \in {set_widget_value(Begin, w, v, 0)} :
               /\ wstate' = [wstate EXCEPT ![w] = "alive"]
               /\ shown' = st.shown
               /\ slider' = st.slider
               /\ bind(o, w)
               /\ Done("bindNew", w, v, st, "none")
        /\ UNCHANGED <<kind, hasSetter, attr, wrapped, wrapCount, sourceProp,
                       ranges, configs>>

\* `instance.prop = v` from code
CodeSet(o, v) ==
    /\ v \in CodeValues(kind)
    /\ IF wrapped
       THEN \E st \in {wrapped_setter(Begin, o, v, 0)} :
                /\ attr' = st.attr
                /\ shown' = st.shown
                /\ slider' = st.slider
                /\ Done("set", 0, v, st, IF st.exc THEN "ValueError" ELSE "none")
       ELSE IF hasSetter
       THEN /\ attr' = [attr EXCEPT ![o] = v]
            /\ UNCHANGED <<shown, slider>>
            /\ Done("set", 0, v, [Begin EXCEPT !.calls = <<v>>], "none")
       ELSE /\ UNCHANGED <<attr, shown, slider>>
            /\ Done("set", 0, v, Begin, "AttributeError")
    /\ UNCHANGED <<kind, hasSetter, wrapped, wrapCount, sourceProp, binds, conn,
                   wstate, ranges, configs>>

\* the user edits control w to v: the control displays v and emits
\* value_changed(v); a spin box does what its valueChanged slots do
UiEdit(w, v) ==
    /\ wstate[w] = "alive"
    /\ v \in UiValues(kind, shown[w])
    /\ \E st \in {IF kind = "SpinboxWidget"
                 THEN spinbox_setValue(Begin, w, v, 0)
                 ELSE emit_value_changed([Begin EXCEPT !.shown[w] = v], w, v, 0)} :
           /\ attr' = st.attr
           /\ shown' = st.shown
           /\ slider' = st.slider
           /\ Done("edit", w, v, st, "none")
    /\ UNCHANGED <<kind, hasSetter, wrapped, wrapCount, sourceProp, binds, conn,
                   wstate, ranges, configs>>

\* `widget.value = v` from code, on a control from_property returned and
\* bound
WidgetSet(w, v) ==
    /\ wstate[w] = "alive"
    /\ \E i \in 1..Len(binds[owner(w)]) : binds[owner(w)][i] = w
    /\ v \in WidgetValues(kind)
    /\ \E st \in {set_widget_value(Begin, w, v, 0)} :
           /\ attr' = st.attr
           /\ shown' = st.shown
           /\ slider' = st.slider
           /\ Done("widgetSet", w, v, st, "none")
    /\ UNCHANGED <<kind, hasSetter, wrapped, wrapCount, sourceProp, binds, conn,
                   wstate, ranges, configs>>

\* what a call of a setter of spin box w that ends in state st leaves
Configured(op, w, v, st) ==
    /\ attr' = st.attr
    /\ shown' = st.shown
    /\ slider' = st.slider
    /\ ranges' = st.ranges
    /\ configs' = configs + 1
    /\ Done(op, w, v, st, "none")
    /\ UNCHANGED <<kind, hasSetter, wrapped, wrapCount, sourceProp, binds, conn,
                   wstate>>

\* `widget.min = m` of a spin box: spinbox.setMinimum(m) raises the maximum
\* to m when it is below, then slider.setMinimum(m * 10**decimals)
SetMin(w, m) ==
    /\ kind = "SpinboxWidget" /\ wstate[w] = "alive"
    /\ configs < MaxConfigs
    /\ \E s1 \in {spinbox_setRange(Begin, w, RoundStep(m),
                                    Max2(ranges[w].hi, RoundStep(m)), 0)} :
       \E s2 \in {slider_setMinimum(s1, w, ToSlider(m), 0)} :
           Configured("min", w, m, s2)

\* `widget.max = m` of a spin box: spinbox.setMaximum(m) lowers the minimum
\* to m when it is above, then slider.setMaximum(m * 10**decimals)
SetMax(w, m) ==
    /\ kind = "SpinboxWidget" /\ wstate[w] = "alive"
    /\ configs < MaxConfigs
    /\ \E s1 \in {spinbox_setRange(Begin, w, Min2(ranges[w].lo, RoundStep(m)),
                                    RoundStep(m), 0)} :
       \E s2 \in {slider_setMaximum(s1, w, ToSlider(m), 0)} :
           Configured("max", w, m, s2)

\* `widget.decimals = n` of a spin box, n the decimals it has:
\* spinbox.setDecimals(n) sets range and value again, then the slider is
\* given the range of the spin box, maximum first
SetDecimals(w, n) ==
    /\ kind = "SpinboxWidget" /\ wstate[w] = "alive"
    /\ configs < MaxConfigs
    /\ \E s1 \in {spinbox_setRange(Begin, w, ranges[w].lo, ranges[w].hi, 0)} :
       \E s2 \in {slider_setMaximum(s1, w, ToSlider(s1.ranges[w].hi), 0)} :
       \E s3 \in {slider_setMinimum(s2, w, ToSlider(s2.ranges[w].lo), 0)} :
           Configured("decimals", w, n, s3)

\* the slot bind() connects to widget.destroyed
Prune(b, ws) == [o \in Objs |-> SelectSeq(b[o], LAMBDA u : u \notin ws)]

\* a destroyed control no longer displays anything
Gone(sh, ws) == [w \in Widgets |-> IF w \in ws THEN DefaultShown(kind) ELSE sh[w]]

\* nor does its slider stand anywhere
SliderGone(sl, ws) == [w \in Widgets |-> IF w \in ws THEN SliderMin ELSE sl[w]]

RangeGone(rg, ws) == [w \in Widgets |-> IF w \in ws THEN DefaultRange ELSE rg[w]]

\* PropertyForm.value setter: form_layout.removeRow(0) deletes the row's
\* control at once, and the control emits destroyed
RemoveRow(w) ==
    /\ wstate[w] = "alive"
    /\ wstate' = [wstate EXCEPT ![w] = "destroyed"]
    /\ binds' = Prune(binds, {w})
    /\ conn' = conn \ {w}
    /\ shown' = Gone(shown, {w})
    /\ slider' = SliderGone(slider, {w})
    /\ ranges' = RangeGone(ranges, {w})
    /\ Done("removeRow", w, 0, Begin, "none")
    /\ UNCHANGED <<kind, hasSetter, attr, wrapped, wrapCount, sourceProp, configs>>

\* ValueListWidget.remove_item and value setter: the row (and the controls
\* of the form inside it) is taken out of the layout and deleteLater() is
\* called on it
DeleteLater(w) ==
    /\ wstate[w] = "alive"
    /\ wstate' = [wstate EXCEPT ![w] = "pending"]
    /\ Done("deleteLater", w, 0, Begin, "none")
    /\ UNCHANGED <<kind, hasSetter, attr, wrapped, wrapCount, sourceProp, binds,
                   conn, shown, slider, ranges, configs>>

\* control returns to the event loop: deferred deletions are carried out
ProcessEvents ==
    LET ws == {w \in Widgets : wstate[w] = "pending"}
    IN  /\ ws # {}
        /\ wstate' = [w \in Widgets |-> IF w \in ws THEN "destroyed" ELSE wstate[w]]
        /\ binds' = Prune(binds, ws)
        /\ conn' = conn \ ws
        /\ shown' = Gone(shown, ws)
        /\ slider' = SliderGone(slider, ws)
        /\ ranges' = RangeGone(ranges, ws)
        /\ Done("processEvents", 0, 0, Begin, "none")
        /\ UNCHANGED <<kind, hasSetter, attr, wrapped, wrapCount, sourceProp, configs>>

InitBinding ==
    /\ kind \in Kinds
    /\ hasSetter \in BOOLEAN
    /\ kind = "ValueListWidget" => hasSetter
    /\ attr = [o \in Objs |-> DefaultShown(kind)]
    /\ wrapped = FALSE
    /\ wrapCount = 0
    /\ sourceProp = "none"
    /\ binds = [o \in Objs |-> << >>]
    /\ conn = {}
    /\ wstate = [w \in Widgets |-> "none"]
    /\ shown = [w \in Widgets |-> DefaultShown(kind)]
    /\ slider = [w \in Widgets |-> SliderMin]
    /\ ranges = [w \in Widgets |-> DefaultRange]
    /\ configs = 0
    /\ last = [op |-> "init", w |-> 0, v |-> 0, pre |-> 0,
               calls |-> << >>, changed |-> 0,
               pushes |-> NoCounts, reads |-> NoCounts, emits |-> NoCounts,
               slotErrors |-> 0, overflow |-> FALSE, err |-> "none"]

NextBinding ==
    \/ \E o \in Objs, how \in {"name", "raw", "wrapper"} : from_property(o, how)
    \/ \E o \in Objs, v \in CodeValues(kind) : CodeSet(o, v)
    \/ \E w \in Widgets : \E v \in UiValues(kind, shown[w]) : UiEdit(w, v)
    \/ \E w \in Widgets, v \in WidgetValues(kind) : WidgetSet(w, v)
    \/ \E o \in Objs, w \in Widgets : BindAgain(o, w)
    \/ \E o \in Objs, v \in WidgetValues(kind) : BindNew(o, v)
    \/ \E w \in Widgets, m \in MinValues : SetMin(w, m)
    \/ \E w \in Widgets, m \in MaxValues : SetMax(w, m)
    \/ \E w \in Widgets, n \in DecimalsValues : SetDecimals(w, n)
    \/ \E w \in Widgets : RemoveRow(w)
    \/ \E w \in Widgets : DeleteLater(w)
    \/ ProcessEvents

\* ------------------------------------------------------------------------
\* The control registry (PropertyWidget._known_type_widgets)
\* ------------------------------------------------------------------------

\* len(PropertyWidget.mro()): PropertyWidget, QWidget, QObject, QPaintDevice,
\* Shiboken.Object, object
PropertyWidgetMro == 6

\* the handicap get_widget_class_from_value_class gives PropertyForm
FormPenalty == 999

\* number of control classes the application defines
MaxClasses == 2

\* Value types: plain classes Derived <: Base <: object, Other <: object,
\* list <: object, and the parameterized list[Base], list[Derived].
\* "Any" is the annotation of PropertyWidget.value itself.
PlainTypes == {"object", "Base", "Derived", "Other", "list"}
GenericTypes == {"list[Base]", "list[Derived]"}
\* typing.Optional[Base]: its origin typing.Union is not a class
UnionTypes == {"Optional[Base]"}
ValueTypes == PlainTypes \cup GenericTypes \cup UnionTypes

issubclass(c, p) ==
    \/ c = p
    \/ p = "object"
    \/ c = "Derived" /\ p = "Base"

Origin(t) == IF t \in GenericTypes THEN "list" ELSE "none"
Arg(t) == IF t = "list[Base]" THEN "Base" ELSE "Derived"

\* is_subtype(child_type, parent_type); the arguments of the parameterized
\* types here are plain classes, for which the recursive call is issubclass
is_subtype(c, p) ==
    \/ c = p
    \/ c \in PlainTypes /\ p \in PlainTypes /\ issubclass(c, p)
    \/ /\ c \in GenericTypes /\ p \in GenericTypes
       /\ issubclass(Origin(c), Origin(p))
       /\ issubclass(Arg(c), Arg(p))
    \/ c \in GenericTypes /\ p \in PlainTypes /\ issubclass(Origin(c), p)

VARIABLES
    classes,   \* the control classes defined so far, PropertyForm first
    deferred,  \* PropertyWidget.deferred_type_widgets (indices into classes)
    known,     \* PropertyWidget._known_type_widgets, in insertion order
    rlast      \* what the last registry call did

varsRegistry == <<classes, deferred, known, rlast>>

\* class 0 is PropertyWidget itself
MroLen(cs, c) == IF c = 0 THEN PropertyWidgetMro ELSE cs[c].mro
ValueHint(cs, c) == IF c = 0 THEN "Any" ELSE cs[c].vt

\* the library's own classes that matter here: PropertyForm (value: object)
\* and ValueListWidget (value: list); the classes of the application follow.
\* The module defines ValueListWidget before PropertyForm, and that is their
\* order in the deferred list.
PropertyFormClass == 1

ValueListWidgetClass == 2

BuiltinClasses == 2

\* a dict assignment d[k] = c: a new key goes last, an old key keeps its place
DictPut(dict, k, c) ==
    IF \E i \in 1..Len(dict) : dict[i].key = k
    THEN [i \in 1..Len(dict) |->
             IF dict[i].key = k THEN [key |-> k, cls |-> c] ELSE dict[i]]
    ELSE Append(dict, [key |-> k, cls |-> c])

\* get_known_type_widgets: enter every deferred class under the return
\* annotation of its value getter
RECURSIVE get_known_type_widgets(_, _, _)
get_known_type_widgets(cs, defd, dict) ==
    IF defd = << >> THEN dict
    ELSE get_known_type_widgets(cs, Tail(defd),
                                DictPut(dict, ValueHint(cs, Head(defd)), Head(defd)))

\* a sort key without the penalty of PropertyForm
sort_key_without_penalty(cs, c) == MroLen(cs, c)

\* the sort key of a candidate
SortKey(cs, c) ==
    MroLen(cs, c) + (IF c = PropertyFormClass THEN FormPenalty ELSE 0)

\* raise ValueError(f"No widget class found for type {cls}")
NoWidgetClass == -1

\* a resolution that falls back to PropertyForm instead of raising
form_when_none(cs, dict, t) ==
    LET cand == SelectSeq(dict, LAMBDA e : is_subtype(t, e.key))
    IN  IF cand = << >> THEN PropertyFormClass ELSE cand[1].cls

\* candidates.sort(key=...) is stable: candidates[0] is the first candidate,
\* in dictionary order, with the least key
get_widget_class_from_value_class(cs, dict, t) ==
    LET cand == SelectSeq(dict, LAMBDA e : is_subtype(t, e.key))
    IN  IF cand = << >> THEN NoWidgetClass
        ELSE LET best == CHOOSE i \in 1..Len(cand) :
                             /\ \A j \in 1..Len(cand) :
                                    SortKey(cs, cand[i].cls) <= SortKey(cs, cand[j].cls)
                             /\ \A j \in 1..(i - 1) :
                                    SortKey(cs, cand[j].cls) > SortKey(cs, cand[i].cls)
             IN  cand[best].cls

\* `class C(P)` with P a control class: __init_subclass__ appends C to the
\* deferred list.  vt is the return annotation of C's own value getter, or
\* "inherit" when C does not override value.
DefineClass(p, vt) ==
    /\ Len(classes) < BuiltinClasses + MaxClasses
    /\ p \in 0..Len(classes)
    /\ LET c == [mro |-> MroLen(classes, p) + 1,
                 vt |-> IF vt = "inherit" THEN ValueHint(classes, p) ELSE vt,
                 parent |-> p]
       IN  /\ classes' = Append(classes, c)
           /\ deferred' = Append(deferred, Len(classes) + 1)
           /\ rlast' = [op |-> "define", t |-> c.vt, result |-> Len(classes) + 1,
                        was |-> known]
    /\ UNCHANGED known

\* PropertyWidget.get_widget_class_from_value_class(t)
Resolve(t) ==
    LET dict == get_known_type_widgets(classes, deferred, known)
    IN  /\ known' = dict
        /\ deferred' = << >>
        /\ rlast' = [op |-> "resolve", t |-> t,
                     result |-> get_widget_class_from_value_class(classes, dict, t),
                     was |-> known]
        /\ UNCHANGED classes

InitRegistry ==
    /\ classes = << [mro |-> PropertyWidgetMro + 1, vt |-> "object", parent |-> 0],
                    [mro |-> PropertyWidgetMro + 1, vt |-> "list", parent |-> 0] >>
    /\ deferred = << ValueListWidgetClass, PropertyFormClass >>
    /\ known = << >>
    /\ rlast = [op |-> "init", t |-> "object", result |-> 0, was |-> << >>]

NextRegistry ==
    \/ \E p \in 0..(BuiltinClasses + MaxClasses), vt \in {"Base", "Derived", "Other", "list[Base]", "inherit"} :
           DefineClass(p, vt)
    \/ \E t \in ValueTypes : Resolve(t)

\* ------------------------------------------------------------------------
\* The list editor (ValueListWidget) on its own
\* ------------------------------------------------------------------------

\* number of row widgets that exist at one time, rows awaiting deletion included
MaxRows == 3

\* item_class of the editor
ItemClasses == {"str", "float", "bool"}

\* the control class PropertyWidget.get_widget_class_from_value_class finds
ItemKind(c) ==
    CASE c = "str" -> "TextWidget"
      [] c = "float" -> "SpinboxWidget"
      [] OTHER -> "BoolWidget"

\* TextWidget and SpinboxWidget define from_type; BoolWidget inherits
\* PropertyWidget.from_type, which resolves BoolWidget and calls its from_type
\* again, until the interpreter raises RecursionError
HasFromType(k) == k \in {"TextWidget", "SpinboxWidget"}

\* item_class(): "", 0.0
ItemDefault(c) == 0

\* items code hands to add_item or to the value setter
ItemCodeValues(c) == IF c = "float" THEN {0, 150000} ELSE Texts

\* what a user can change a row that displays cur to
ItemUiValues(c, cur) == (IF c = "float" THEN {0, 99990} ELSE Texts) \ {cur}

RowIds == 1..MaxRows

VARIABLES
    itemClass,   \* item_class of the list editor
    rows,        \* the row widgets in container_layout, in layout order
    rowValue,    \* rowValue[r]: what the item widget of row r displays
    rowSlider,   \* rowSlider[r]: where the hidden slider of a spin box row stands
    pendingRows, \* rows taken out of the layout, deleteLater() called
    llast        \* what the last call on the list editor did

varsList == <<itemClass, rows, rowValue, rowSlider, pendingRows, llast>>

Range(s) == {s[i] : i \in 1..Len(s)}

\* ValueListWidget.value getter: item_widget.value of each layout item
value(rws, vals) == [i \in 1..Len(rws) |-> vals[rws[i]]]

IndexOf(rws, r) == CHOOSE i \in 1..Len(rws) : rws[i] = r

\* a layout that always gives up its first item
removeWidget_first(rws, r) == Tail(rws)
\* container_layout.removeWidget(item_widget)
removeWidget(rws, r) == SelectSeq(rws, LAMBDA x : x # r)

FreeRows(st) == RowIds \ (Range(st.rows) \cup st.pending)

\* spinbox.setValue(v) of the spin box of row r, and equally a number the
\* user enters there: as spinbox_setValue, with the slot add_item connected
\* to the row's value_changed, which emits the list's
\* value_changed(self.value)
RECURSIVE row_setValue(_, _, _)
row_setValue(st, r, v) ==
    LET new == Displayed("SpinboxWidget", v)
    IN  IF new = st.vals[r] THEN st
        ELSE LET s1 == [st EXCEPT !.vals[r] = new]
                 s2 == [s1 EXCEPT !.emits = Append(@, value(s1.rows, s1.vals))]
                 t == SliderTarget(new, SliderMin, SliderMax)
             IN  IF t = s2.sliders[r] THEN s2
                 ELSE row_setValue([s2 EXCEPT !.sliders[r] = t], r, t * SpinStep)

\* add_item(obj): the item widget is connected to a slot that emits the
\* list's value_changed(self.value), takes obj as its value, and is put into
\* the layout last
add_item(st, c, obj) ==
    LET k == ItemKind(c)
        r == CHOOSE x \in FreeRows(st) : \A y \in FreeRows(st) : x <= y
        new == Displayed(k, obj)
        s1 == IF k = "SpinboxWidget" THEN row_setValue(st, r, obj)
              ELSE IF SetterEmits(k, DefaultShown(k), new)
              THEN [st EXCEPT !.emits = Append(@, value(st.rows, st.vals)),
                              !.vals[r] = new]
              ELSE [st EXCEPT !.vals[r] = new]
    IN  [s1 EXCEPT !.rows = Append(@, r)]

RECURSIVE add_all(_, _, _, _)
add_all(st, c, v, i) ==
    IF i > Len(v) THEN st ELSE add_all(add_item(st, c, v[i]), c, v, i + 1)

\* remove_item(item_widget)
remove_item(st, r) ==
    LET s1 == [st EXCEPT !.rows = removeWidget(@, r), !.pending = @ \cup {r}]
    IN  [s1 EXCEPT !.emits = Append(@, value(s1.rows, s1.vals))]

ListBegin == [rows |-> rows, vals |-> rowValue, sliders |-> rowSlider,
              pending |-> pendingRows, emits |-> << >>]

ListDone(op, k, st, err) ==
    /\ rows' = st.rows
    /\ rowValue' = st.vals
    /\ rowSlider' = st.sliders
    /\ pendingRows' = st.pending
    /\ llast' = [op |-> op, k |-> k, pre |-> value(rows, rowValue),
                 emits |-> st.emits, err |-> err]
    /\ UNCHANGED itemClass

\* the "Add value" button, without the subclass selector
on_add_button_clicked ==
    IF ~HasFromType(ItemKind(itemClass))
    THEN ListDone("add", 0, ListBegin, "RecursionError")
    ELSE /\ FreeRows(ListBegin) # {}
         /\ LET s1 == add_item(ListBegin, itemClass, ItemDefault(itemClass))
                s2 == [s1 EXCEPT !.emits = Append(@, value(s1.rows, s1.vals))]
            IN  ListDone("add", 0, s2, "none")

\* add_item(obj) called by code: PropertyWidget.from_type is its first
\* statement, and what it raises reaches the caller
AddItem(obj) ==
    IF ~HasFromType(ItemKind(itemClass))
    THEN ListDone("add_item", 0, ListBegin, "RecursionError")
    ELSE /\ FreeRows(ListBegin) # {}
         /\ ListDone("add_item", 0, add_item(ListBegin, itemClass, obj), "none")

\* the delete button of row r
RemoveItem(r) ==
    /\ r \in Range(rows)
    /\ ListDone("remove", IndexOf(rows, r), remove_item(ListBegin, r), "none")

\* the user edits row r: its item widget emits value_changed, and the slot
\* add_item connected emits the list's value_changed(self.value)
EditItem(r, x) ==
    /\ r \in Range(rows)
    /\ LET s1 == [ListBegin EXCEPT !.vals[r] = x]
           s2 == IF ItemKind(itemClass) = "SpinboxWidget"
                 THEN row_setValue(ListBegin, r, x)
                 ELSE [s1 EXCEPT !.emits = Append(@, value(s1.rows, s1.vals))]
       IN  ListDone("edit", IndexOf(rows, r), s2, "none")

\* ValueListWidget.value setter: every layout item is taken out and its
\* widget scheduled for deletion, then add_item for each element
SetListValue(v) ==
    LET s1 == [ListBegin EXCEPT !.rows = << >>,
                                !.pending = @ \cup Range(rows)]
    IN  IF v # << >> /\ ~HasFromType(ItemKind(itemClass))
        THEN ListDone("set", 0, s1, "RecursionError")
        ELSE /\ Len(v) <= Cardinality(RowIds \ (Range(rows) \cup pendingRows))
             /\ ListDone("set", 0, add_all(s1, itemClass, v, 1), "none")

\* the event loop deletes the rows deleteLater() was called on
DeleteRows ==
    /\ pendingRows # {}
    /\ pendingRows' = {}
    /\ rowValue' = [r \in RowIds |-> IF r \in pendingRows THEN 0 ELSE rowValue[r]]
    /\ rowSlider' = [r \in RowIds |-> IF r \in pendingRows THEN SliderMin ELSE rowSlider[r]]
    /\ llast' = [op |-> "events", k |-> 0, pre |-> value(rows, rowValue),
                 emits |-> << >>, err |-> "none"]
    /\ UNCHANGED <<itemClass, rows>>

InitList ==
    /\ itemClass \in ItemClasses
    /\ rows = << >>
    /\ rowValue = [r \in RowIds |-> 0]
    /\ rowSlider = [r \in RowIds |-> SliderMin]
    /\ pendingRows = {}
    /\ llast = [op |-> "init", k |-> 0, pre |-> << >>, emits |-> << >>,
                err |-> "none"]

NextList ==
    \/ on_add_button_clicked
    \/ \E obj \in ItemCodeValues(itemClass) : AddItem(obj)
    \/ \E r \in RowIds : RemoveItem(r)
    \/ \E r \in RowIds : \E x \in ItemUiValues(itemClass, rowValue[r]) : EditItem(r, x)
    \/ \E v \in SeqsUpTo(ItemCodeValues(itemClass), MaxLen) : SetListValue(v)
    \/ DeleteRows

\* ------------------------------------------------------------------------
\* The serializer (PersistentPropertiesMixin, ComplexEncoder)
\* ------------------------------------------------------------------------

\* longest list the list-valued attribute of the serialized instance holds
MaxItems == 2

\* Python values.  t is the kind of value, c a text (the string itself, or
\* the class name of an instance or enumeration member), n a number, kv the
\* entries of a dict or the attributes of an instance in order, xs the
\* elements of a list.
Val(t, c, n, kv, xs) == [t |-> t, c |-> c, n |-> n, kv |-> kv, xs |-> xs]

NoneV == Val("none", "", 0, << >>, << >>)
IntV(n) == Val("int", "", n, << >>, << >>)
StrV(s) == Val("str", s, 0, << >>, << >>)
EnumV(c, n) == Val("enum", c, n, << >>, << >>)
ListV(xs) == Val("list", "", 0, << >>, xs)
DictV(kv) == Val("dict", "", 0, kv, << >>)
InstV(c, kv) == Val("inst", c, 0, kv, << >>)
Raise(e) == Val("raise", e, 0, << >>, << >>)

HasKeyKV(kv, k) == \E i \in 1..Len(kv) : kv[i].k = k
GetKV(kv, k) == kv[CHOOSE i \in 1..Len(kv) : kv[i].k = k].v
SetKV(kv, k, x) ==
    [i \in 1..Len(kv) |-> IF kv[i].k = k THEN [k |-> k, v |-> x] ELSE kv[i]]

\* The classes of the application: Doc, and Shape with the subclasses Circle
\* and Square, all with the mixin;  Shape._known_types = [Circle, Square].
\*   Doc.name: str          Doc.secret: str, dont_encode=True
\*   Doc.count: int, no setter (counted up by Doc.bump())
\*   Doc.mode: Mode, an Enum with the values 1 and 2
\*   Doc.shape: Shape       Doc.shapes: list[Shape]
\*   Shape.size: int
IsSubclass(c, p) == c = p \/ (p = "Shape" /\ c \in {"Circle", "Square"})

ModeValues == {1, 2}

get_properties(cls) ==
    IF cls = "Doc" THEN <<"name", "secret", "count", "mode", "shape", "shapes">>
    ELSE <<"size">>

Hint(cls, a) ==
    CASE a = "name" -> "str"
      [] a = "secret" -> "str"
      [] a = "count" -> "int"
      [] a = "mode" -> "Mode"
      [] a = "shape" -> "Shape"
      [] a = "shapes" -> "list[Shape]"
      [] OTHER -> "int"

\* prop.fset is not None
HasFset(cls, a) == a # "count"

\* prop.fget.parameters.get('dont_encode', False)
DontEncode(cls, a) == a = "secret"

\* cls._known_types, which Circle and Square inherit from Shape
KnownTypes(cls) == IF cls = "Doc" THEN << >> ELSE <<"Circle", "Square">>

\* what cls() holds
DefaultOf(a) ==
    CASE a = "name" -> StrV("")
      [] a = "secret" -> StrV("")
      [] a = "count" -> IntV(0)
      [] a = "mode" -> EnumV("Mode", 1)
      [] a = "shape" -> NoneV
      [] a = "shapes" -> ListV(<< >>)
      [] OTHER -> IntV(0)

\* Doc.resize(self, factor: int = 2, label=None) is marked @action; the
\* other classes have no action
Actions(cls) == IF cls = "Doc" THEN <<"resize">> ELSE << >>

\* inspect.signature(func).parameters
Params(a) == <<"self", "factor", "label">>

\* T.get_type_hints(func): the parameters create_action_object makes a
\* property of
Annotated(a) == <<"factor">>

\* param.default, None for inspect.Parameter.empty
ParamDefault(p) == IF p = "factor" THEN IntV(2) ELSE NoneV

\* args["self"] = instance
OwnerV == Val("owner", "", 0, << >>, << >>)

\* create_action_object(func, instance): the proxy with its args
create_action_object(a) ==
    Val("action", a, 0,
        [i \in 1..Len(Params(a)) |->
            [k |-> Params(a)[i],
             v |-> IF Params(a)[i] = "self" THEN OwnerV ELSE ParamDefault(Params(a)[i])]],
        << >>)

\* cls(): the properties in kv, self._action_objects in xs
New(cls) ==
    LET props == get_properties(cls)
        acts == Actions(cls)
    IN  Val("inst", cls, 0,
            [i \in 1..Len(props) |-> [k |-> props[i], v |-> DefaultOf(props[i])]],
            [i \in 1..Len(acts) |-> create_action_object(acts[i])])

\* action_object.to_dict(): the properties of the proxy read obj.args
action_to_dict(ao) ==
    DictV([i \in 1..Len(Annotated(ao.c)) |->
              [k |-> Annotated(ao.c)[i], v |-> GetKV(ao.kv, Annotated(ao.c)[i])]])

\* a to_dict that leaves the action objects out
to_dict_without_actions(inst, include) ==
    LET props == SelectSeq(get_properties(inst.c), LAMBDA a : ~DontEncode(inst.c, a))
        body == [i \in 1..Len(props) |-> [k |-> props[i], v |-> GetKV(inst.kv, props[i])]]
        head == IF include THEN << [k |-> "__class__", v |-> StrV(inst.c)] >> ELSE << >>
    IN  DictV(head \o body)

\* to_dict(self, include_class_name): the value of every property that is
\* not flagged dont_encode, as the getter returns it
to_dict(inst, include) ==
    LET props == SelectSeq(get_properties(inst.c), LAMBDA a : ~DontEncode(inst.c, a))
        body == [i \in 1..Len(props) |-> [k |-> props[i], v |-> GetKV(inst.kv, props[i])]]
        head == IF include THEN << [k |-> "__class__", v |-> StrV(inst.c)] >> ELSE << >>
        acts == [i \in 1..Len(inst.xs) |->
                    [k |-> inst.xs[i].c, v |-> action_to_dict(inst.xs[i])]]
    IN  DictV(head \o body \o acts)

\* json.loads(json.dumps(x, cls=ComplexEncoder)): ComplexEncoder.default
\* turns an Enum member into its value and an instance into its to_dict(),
\* and the encoder goes on into what default returned
RECURSIVE json_tree(_)
json_tree(x) ==
    CASE x.t = "enum" -> IntV(x.n)
      [] x.t = "inst" -> json_tree(to_dict(x, FALSE))
      [] x.t = "list" -> ListV([i \in 1..Len(x.xs) |-> json_tree(x.xs[i])])
      [] x.t = "dict" ->
            DictV([i \in 1..Len(x.kv) |-> [k |-> x.kv[i].k, v |-> json_tree(x.kv[i].v)]])
      [] OTHER -> x

\* T.get_origin(target_type) or target_type
target_class(h) == IF h = "list[Shape]" THEN "list" ELSE h

\* T.get_args(target_type)[0]
item_type(h) == "Shape"

isinstance(x, tc) ==
    CASE tc = "str" -> x.t = "str"
      [] tc = "int" -> x.t = "int"
      [] tc = "list" -> x.t = "list"
      [] tc = "Mode" -> x.t = "enum" /\ x.c = "Mode"
      [] OTHER -> x.t = "inst" /\ IsSubclass(x.c, tc)

FirstRaise(xs) ==
    IF \E i \in 1..Len(xs) : xs[i].t = "raise"
    THEN xs[CHOOSE i \in 1..Len(xs) :
                /\ xs[i].t = "raise"
                /\ \A j \in 1..(i - 1) : xs[j].t # "raise"]
    ELSE NoneV

\* an enumeration that answers an unknown value with its first member
enum_or_first(x) ==
    EnumV("Mode", IF x.t = "int" /\ x.n \in ModeValues THEN x.n ELSE 1)

\* Mode(value): the member with that value; ValueError when there is none
enum_by_value(x) ==
    IF x.t = "int" /\ x.n \in ModeValues THEN EnumV("Mode", x.n)
    ELSE Raise("ValueError")

RECURSIVE from_dict(_, _)
RECURSIVE type_convert(_, _)
RECURSIVE setstate(_, _, _)
RECURSIVE set_args(_, _, _)

\* type_convert(value, target_type); none of the classes here is a Path, a
\* QColor or a QFont
type_convert(x, h) ==
    LET tc == target_class(h)
    IN  IF ~isinstance(x, tc)
        THEN IF tc = "Mode" THEN enum_by_value(x) ELSE x
        ELSE IF tc = "list"
             THEN LET it == item_type(h)
                      ys == [i \in 1..Len(x.xs) |->
                                IF isinstance(x.xs[i], it) THEN x.xs[i]
                                ELSE from_dict(it, x.xs[i])]
                  IN  IF FirstRaise(ys).t = "raise" THEN FirstRaise(ys) ELSE ListV(ys)
             ELSE x

HasAction(inst, key) == \E j \in 1..Len(inst.xs) : inst.xs[j].c = key
ActionIndex(inst, key) == CHOOSE j \in 1..Len(inst.xs) : inst.xs[j].c = key

\* the inner loop of __setstate__ over value.items() for an action object:
\* every name that is in action_object.args is written, "self" included
set_args(ao, kv, i) ==
    IF i > Len(kv) THEN ao
    ELSE LET name == kv[i].k
         IN  IF HasKeyKV(ao.kv, name)
             THEN LET x == IF \E j \in 1..Len(Annotated(ao.c)) : Annotated(ao.c)[j] = name
                           THEN type_convert(kv[i].v, "int")
                           ELSE kv[i].v
                  IN  IF x.t = "raise" THEN x
                      ELSE set_args([ao EXCEPT !.kv = SetKV(@, name, x)], kv, i + 1)
             ELSE set_args(ao, kv, i + 1)

\* __setstate__(state), from the i-th entry of state on
setstate(inst, kv, i) ==
    IF i > Len(kv) THEN inst
    ELSE LET key == kv[i].k
         IN  IF HasKeyKV(inst.kv, key)
             THEN LET x == type_convert(kv[i].v, Hint(inst.c, key))
                  IN  IF x.t = "raise" THEN x
                      ELSE IF HasFset(inst.c, key)
                           THEN setstate([inst EXCEPT !.kv = SetKV(@, key, x)], kv, i + 1)
                           ELSE setstate(inst, kv, i + 1)
             ELSE IF HasAction(inst, key)
             THEN IF kv[i].v.t # "dict" THEN Raise("AttributeError")
                  ELSE LET j == ActionIndex(inst, key)
                           ao == set_args(inst.xs[j], kv[i].v.kv, 1)
                       IN  IF ao.t = "raise" THEN ao
                           ELSE setstate([inst EXCEPT !.xs[j] = ao], kv, i + 1)
             ELSE setstate(inst, kv, i + 1)

\* the class from_dict constructs
resolve_class(cls, state) ==
    LET kts == KnownTypes(cls)
    IN  IF HasKeyKV(state.kv, "__class__") /\ kts # << >>
        THEN LET name == GetKV(state.kv, "__class__")
                 hit == {i \in 1..Len(kts) : name = StrV(kts[i])}
             IN  IF hit = {} THEN cls
                 ELSE kts[CHOOSE i \in hit : \A j \in hit : i <= j]
        ELSE cls

\* a from_dict that refuses a state with a key named "extra"
from_dict_strict(cls, state) ==
    IF state.t # "dict" \/ HasKeyKV(state.kv, "extra") THEN Raise("KeyError")
    ELSE setstate(New(resolve_class(cls, state)), state.kv, 1)

\* cls.from_dict(state)
from_dict(cls, state) ==
    IF state.t # "dict"
    THEN Raise(IF state.t \in {"str", "list"} THEN "AttributeError" ELSE "TypeError")
    ELSE setstate(New(resolve_class(cls, state)), state.kv, 1)

VARIABLES
    doc,    \* the Doc instance of the application
    slast   \* the last call: its tree and the instance from_dict returned

varsSerial == <<doc, slast>>

Idle == [op |-> "none", cls |-> "Doc", json |-> FALSE, include |-> FALSE,
         tree |-> NoneV, copy |-> NoneV]

\* a Shape, Circle or Square as the application constructs it
ShapeInstances ==
    {[New(c) EXCEPT !.kv = SetKV(@, "size", IntV(n))] :
        c \in {"Shape", "Circle", "Square"}, n \in {0, 1}}
    \ {[New(c) EXCEPT !.kv = SetKV(@, "size", IntV(1))] : c \in {"Shape", "Square"}}

AttrValues(a) ==
    CASE a = "name" -> {StrV(""), StrV("a")}
      [] a = "secret" -> {StrV(""), StrV("s")}
      [] a = "mode" -> {EnumV("Mode", m) : m \in ModeValues}
      [] a = "shape" -> {NoneV} \cup ShapeInstances
      [] OTHER -> {}

\* doc.a = x, through the property's setter
SetAttr(a, x) ==
    /\ HasFset("Doc", a)
    /\ doc' = [doc EXCEPT !.kv = SetKV(@, a, x)]
    /\ slast' = [Idle EXCEPT !.op = "set"]

\* doc.shapes = doc.shapes + [x]
AppendShape(x) ==
    /\ Len(GetKV(doc.kv, "shapes").xs) < MaxItems
    /\ doc' = [doc EXCEPT !.kv = SetKV(@, "shapes",
                                       ListV(Append(GetKV(doc.kv, "shapes").xs, x)))]
    /\ slast' = [Idle EXCEPT !.op = "set"]

\* doc.bump(): the one way the read-only count changes
Bump ==
    /\ GetKV(doc.kv, "count").n < 1
    /\ doc' = [doc EXCEPT !.kv = SetKV(@, "count", IntV(GetKV(doc.kv, "count").n + 1))]
    /\ slast' = [Idle EXCEPT !.op = "set"]

\* values the application assigns to the factor of resize
SlotValues == {IntV(5), IntV(7)}

\* doc._action_objects[a].p = v through the property create_action_object
\* made of the annotated parameter p: _setter does obj.args[p] = v
AssignSlot(a, p, v) ==
    /\ HasAction(doc, a)
    /\ \E i \in 1..Len(Annotated(a)) : Annotated(a)[i] = p
    /\ doc' = [doc EXCEPT !.xs[ActionIndex(doc, a)].kv = SetKV(@, p, v)]
    /\ slast' = [Idle EXCEPT !.op = "set"]

\* Doc.from_dict(doc.to_dict(include)), or the same with the dictionary
\* written to JSON with ComplexEncoder and read back in between
RoundTrip(json, include) ==
    LET d == to_dict(doc, include)
        tree == IF json THEN json_tree(d) ELSE d
    IN  /\ slast' = [op |-> "roundtrip", cls |-> "Doc", json |-> json,
                     include |-> include,
                     tree |-> tree, copy |-> from_dict("Doc", tree)]
        /\ UNCHANGED doc

InitSerial ==
    /\ doc = New("Doc")
    /\ slast = Idle

NextSerial ==
    \/ \E a \in {"name", "secret", "mode", "shape"} : \E x \in AttrValues(a) : SetAttr(a, x)
    \/ \E x \in ShapeInstances : AppendShape(x)
    \/ Bump
    \/ AssignSlot("resize", "factor", IntV(5))
    \/ \E json \in BOOLEAN, include \in BOOLEAN : RoundTrip(json, include)

\* ------------------------------------------------------------------------
\* Trees that come from a file rather than from to_dict
\* ------------------------------------------------------------------------

\* entries a stored tree may or may not have
Opt(S) == {<< >>} \cup {<<e>> : e \in S}

Entry(k, x) == [k |-> k, v |-> x]

\* what a file holds for Shape.size, declared int: a number, or a string
SizeValues == {IntV(0), IntV(1), StrV("1")}

\* stored trees of a Shape: with or without discriminator (Triangle is in no
\* _known_types), with or without a key the class does not know
ShapeTrees ==
    {DictV(d \o <<Entry("size", n)>> \o x) :
        d \in Opt({Entry("__class__", StrV(c)) : c \in {"Circle", "Square", "Triangle"}}),
        n \in SizeValues,
        x \in Opt({Entry("extra", IntV(7))})}

\* stored trees of a Doc; 3 is the value of no member of Mode
DocTrees ==
    {DictV(n \o m \o c \o x \o l \o a) :
        a \in Opt({Entry("resize", DictV(<<Entry("factor", IntV(5))>>)),
                   Entry("resize", DictV(<<Entry("bogus", IntV(1)), Entry("label", StrV("x")),
                                           Entry("self", IntV(9))>>)),
                   Entry("resize", IntV(5))}),
        n \in Opt({Entry("name", StrV("a"))}),
        m \in Opt({Entry("mode", IntV(v)) : v \in {2, 3}}),
        c \in Opt({Entry("count", IntV(1))}),
        x \in Opt({Entry("extra", IntV(7))}),
        l \in Opt({Entry("shapes", ListV(<<t>>)) :
                      t \in {u \in ShapeTrees : ~HasKeyKV(u.kv, "extra") /\ GetKV(u.kv, "size") = IntV(1)}})}

LoadTrees(cls) == IF cls = "Doc" THEN DocTrees ELSE ShapeTrees

\* cls.from_dict(tree) on a stored tree
Load(cls, tree) ==
    /\ slast' = [op |-> "load", cls |-> cls, json |-> FALSE, include |-> FALSE,
                 tree |-> tree, copy |-> from_dict(cls, tree)]
    /\ UNCHANGED doc

NextLoad ==
    \E cls \in {"Doc", "Shape", "Circle"} : \E tree \in LoadTrees(cls) : Load(cls, tree)

\* ------------------------------------------------------------------------
\* Calling an action object (ActionObject.__call__)
\* ------------------------------------------------------------------------

VARIABLES
    plast   \* the last operation on doc's resize proxy, what has been written
            \* to each entry of args so far, and what func received from the
            \* last call of the proxy

varsProxy == <<plast>>

ParamSet(a) == {Params(a)[i] : i \in 1..Len(Params(a))}

\* no write to this entry of args since the proxy was made
Unassigned == Val("unassigned", "", 0, << >>, << >>)

\* __call__: self.func(**self.args), the invocations func receives, each as
\* its keyword arguments
call(ao) == << ao.kv >>

\* the value of an action entry of a stored tree
ArgTrees ==
    {DictV(f \o b \o l \o o) :
        f \in Opt({Entry("factor", v) : v \in SlotValues}),
        b \in Opt({Entry("bogus", IntV(1))}),
        l \in Opt({Entry("label", StrV(x)) : x \in {"x", "y"}}),
        o \in Opt({Entry("self", IntV(9))})}

\* proxy.p = v
SetSlot(a, p, v) ==
    /\ AssignSlot(a, p, v)
    /\ plast' = [plast EXCEPT !.op = "assign", !.assigned[p] = v]

\* doc.__setstate__({a: tree}); no tree of ArgTrees makes it raise
RestoreArgs(a, tree) ==
    LET inst == setstate(doc, << Entry(a, tree) >>, 1)
    IN  /\ inst.t = "inst"
        /\ doc' = inst
        /\ slast' = [Idle EXCEPT !.op = "set"]
        /\ plast' = [op |-> "restore",
                     assigned |-> [p \in ParamSet(a) |->
                                      IF HasKeyKV(tree.kv, p) THEN GetKV(tree.kv, p)
                                      ELSE plast.assigned[p]],
                     invoked |-> plast.invoked]

\* doc._action_objects[a]()
CallProxy(a) ==
    /\ HasAction(doc, a)
    /\ plast' = [plast EXCEPT !.op = "call",
                              !.invoked = call(doc.xs[ActionIndex(doc, a)])]
    /\ UNCHANGED varsSerial

InitProxy ==
    plast = [op |-> "init", assigned |-> [p \in ParamSet("resize") |-> Unassigned],
             invoked |-> << >>]

NextProxy ==
    \/ \E v \in SlotValues : SetSlot("resize", "factor", v)
    \/ \E tree \in ArgTrees : RestoreArgs("resize", tree)
    \/ CallProxy("resize")

\* ------------------------------------------------------------------------
\* Property reflection (get_class_properties, get_properties)
\* ------------------------------------------------------------------------

\* length of the chain of classes: class 1 is the most ancestral, class n + 1
\* is a subclass of class n
MaxLevels == 3

Levels == 1..MaxLevels

PropNames == {"x", "y", "z"}

VARIABLES
    decl,   \* decl[n]: the properties class n declares, in the order of its body
    refl    \* the last get_properties call and the mapping it returned

varsReflect == <<decl, refl>>

\* get_class_properties(cls): the properties of cls.__dict__, in its order
get_class_properties(dcl, n) ==
    [i \in 1..Len(dcl[n]) |-> [key |-> dcl[n][i], cls |-> n]]

\* properties[prop_name] = prop for every entry of props, from the i-th on
RECURSIVE put_all(_, _, _)
put_all(dict, props, i) ==
    IF i > Len(props) THEN dict
    ELSE put_all(DictPut(dict, props[i].key, props[i].cls), props, i + 1)

\* the loop of get_properties over reversed(cls.mro()), from class k on
RECURSIVE merge_up(_, _, _, _)
merge_up(dcl, n, k, dict) ==
    IF k > n THEN dict
    ELSE merge_up(dcl, n, k + 1, put_all(dict, get_class_properties(dcl, k), 1))

\* a reflection that looks at the class's own body only
properties_own_only(dcl, n) == put_all(<< >>, get_class_properties(dcl, n), 1)

\* get_properties(cls) for class n
properties_of(dcl, n) == merge_up(dcl, n, 1, << >>)

\* the body of class n declares one more property
DeclareProperty(n, p) ==
    /\ \A i \in 1..Len(decl[n]) : decl[n][i] # p
    /\ decl' = [decl EXCEPT ![n] = Append(@, p)]
    /\ refl' = [op |-> "declare", n |-> 1, was |-> decl', props |-> << >>]

\* get_properties(class n)
Reflect(n) ==
    /\ refl' = [op |-> "reflect", n |-> n, was |-> decl,
                props |-> properties_of(decl, n)]
    /\ UNCHANGED decl

InitReflect ==
    /\ decl = [n \in Levels |-> << >>]
    /\ refl = [op |-> "init", n |-> 1, was |-> decl, props |-> << >>]

NextReflect ==
    \/ \E n \in Levels, p \in PropNames : DeclareProperty(n, p)
    \/ \E n \in Levels : Reflect(n)

\* ------------------------------------------------------------------------
\* The form (PropertyForm) and its action sections (ActionForm)
\* ------------------------------------------------------------------------

\* number of times the form's value is assigned, the constructor's
\* assignment included
MaxBuilds == 4

\* number of times the application calls add_action on the form
MaxAdds == 2

\* The instances shown in the form: two of class Note, one of class Tag,
\* both classes with the mixin.
\*   Note.title: str      Note.hidden: str, declared with widget=None
\*   Note.body: str       @action Note.stamp(self, text: str = "")
\*   Tag.label: str
FormObjs == {"n1", "n2", "t1"}

FormClass(x) == IF x = "t1" THEN "Tag" ELSE "Note"

\* get_properties(self.value.__class__), in its order
FormProps(cls) == IF cls = "Note" THEN <<"title", "hidden", "body">> ELSE <<"label">>

\* actual_prop.fget.parameters["widget"] is None: from_property returns None
WidgetNone(cls, a) == a = "hidden"

\* self.value._action_objects, in its order
FormActions(cls) == IF cls = "Note" THEN <<"stamp">> ELSE << >>

\* get_properties of the proxy's class: the annotated parameters
ActionProps(act) == <<"text">>

VARIABLES
    formValue,       \* self._value
    formRows,        \* the controls of form_layout's rows, top to bottom
    sections,        \* the ActionForms of actions_container, top to bottom
    childWidgets,    \* the controls and sections that exist as children of the form
    formBinds,       \* binds of every wrapped property: formBinds[<<x, act, a>>]
    deferredDelete,  \* widgets deleteLater() was called on, not yet deleted
    builds,          \* number of assignments of the form's value so far
    adds,            \* number of add_action calls of the application so far
    flast            \* the last operation on the form and what it emitted

varsForm == <<formValue, formRows, sections, childWidgets, formBinds,
              deferredDelete, builds, adds, flast>>

\* a widget made in the g-th build for instance x: the control of attribute a
\* (act = ""), the ActionForm of action act (a = ""), or the control of
\* parameter a inside that ActionForm.  `no` and `proxy` are 0 for what
\* _setup_form makes: the proxy is then x._action_objects[act].
Widget(g, x, act, a) ==
    [gen |-> g, no |-> 0, of |-> x, act |-> act, proxy |-> 0, attr |-> a]

\* the same widget made by the k-th add_action call of the application, for
\* proxy p: 0 is x._action_objects[act], k the proxy create_action_object
\* makes in that call
Added(w, k, p) == [w EXCEPT !.no = k, !.proxy = p]

\* the instances a control can be bound to: x itself (act = ""), or a proxy
BindKeys == {<<x, act, p, a>> : x \in FormObjs, act \in {"", "stamp"},
                                p \in 0..MaxAdds,
                                a \in {"title", "hidden", "body", "label", "text"}}

KeyOf(w) == <<w.of, w.act, w.proxy, w.attr>>

\* the slot bind() connects to widget.destroyed, for every wrapped property
PruneAll(b, ws) == [k \in BindKeys |-> SelectSeq(b[k], LAMBDA u : u \notin ws)]

\* actual_prop.bind(instance, w) for each control of ws, in order
RECURSIVE BindAll(_, _)
BindAll(b, ws) ==
    IF ws = << >> THEN b
    ELSE BindAll([b EXCEPT ![KeyOf(Head(ws))] = Append(@, Head(ws))], Tail(ws))

\* the loop of _setup_form over the properties of x: one row per property
\* from_property returns a control for
setup_rows(g, x, act, props) ==
    LET cls == FormClass(x)
        vis == IF act = "" THEN SelectSeq(props, LAMBDA a : ~WidgetNone(cls, a))
               ELSE props
    IN  [i \in 1..Len(vis) |-> Widget(g, x, act, vis[i])]

\* add_action for every action object of x: an ActionForm, built by from_type
\* on a placeholder proxy whose rows the assignment of the real proxy removes
\* again, then rebuilt with one row per annotated parameter and the button row
add_actions(g, x) ==
    LET acts == FormActions(FormClass(x))
    IN  [i \in 1..Len(acts) |->
            [form |-> Widget(g, x, acts[i], ""),
             rows |-> setup_rows(g, x, acts[i], ActionProps(acts[i]))]]

SeqSet(q) == {q[i] : i \in 1..Len(q)}

\* the ActionForms of secs and the controls inside them
SectionWidgets(secs) ==
    {secs[i].form : i \in 1..Len(secs)}
        \cup UNION {SeqSet(secs[i].rows) : i \in 1..Len(secs)}

RECURSIVE BindSections(_, _, _)
BindSections(b, secs, i) ==
    IF i > Len(secs) THEN b ELSE BindSections(BindAll(b, secs[i].rows), secs, i + 1)

\* PropertyForm.value = x.  The rows are removed with removeRow, which
\* deletes their controls at once; the sections are taken out of
\* actions_container and deleted later.
SetFormValue(x) ==
    /\ builds < MaxBuilds
    /\ LET g == builds + 1
           old == SeqSet(formRows)
           rws == setup_rows(g, x, "", FormProps(FormClass(x)))
           secs == add_actions(g, x)
       IN  /\ formValue' = x
           /\ formRows' = rws
           /\ sections' = secs
           /\ deferredDelete' = deferredDelete \cup SectionWidgets(sections)
           /\ childWidgets' = (childWidgets \ old) \cup SeqSet(rws)
                                  \cup SectionWidgets(secs)
           /\ formBinds' = BindSections(BindAll(PruneAll(formBinds, old), rws), secs, 1)
           /\ builds' = g
           /\ flast' = [op |-> "assign", prev |-> formValue, before |-> childWidgets,
                        emitted |-> << x >>]
    /\ UNCHANGED adds

\* form.add_action(act, action_object) called by the application, with the
\* proxy the instance holds for act or with the function itself, for which
\* create_action_object makes a new proxy of a new class.  The ActionForm is
\* appended to actions_container; the form's value_changed is not emitted.
AddAction(act, how) ==
    /\ adds < MaxAdds
    /\ act \in SeqSet(FormActions(FormClass(formValue)))
    /\ LET k == adds + 1
           p == IF how = "function" THEN k ELSE 0
           rws == setup_rows(builds, formValue, act, ActionProps(act))
           sec == [form |-> Added(Widget(builds, formValue, act, ""), k, p),
                   rows |-> [i \in 1..Len(rws) |-> Added(rws[i], k, p)]]
       IN  /\ sections' = Append(sections, sec)
           /\ childWidgets' = childWidgets \cup SectionWidgets(<<sec>>)
           /\ formBinds' = BindAll(formBinds, sec.rows)
           /\ adds' = k
           /\ flast' = [op |-> "add_action", prev |-> formValue,
                        before |-> childWidgets, emitted |-> << >>]
    /\ UNCHANGED <<formValue, formRows, deferredDelete, builds>>

\* control returns to the event loop: the deferred deletions are carried out
FormProcessEvents ==
    /\ deferredDelete # {}
    /\ childWidgets' = childWidgets \ deferredDelete
    /\ formBinds' = PruneAll(formBinds, deferredDelete)
    /\ deferredDelete' = {}
    /\ flast' = [flast EXCEPT !.op = "events", !.emitted = << >>]
    /\ UNCHANGED <<formValue, formRows, sections, builds, adds>>

\* PropertyForm(x): __init__ assigns the value of the new, empty form
InitForm ==
    \E x \in FormObjs :
        LET rws == setup_rows(1, x, "", FormProps(FormClass(x)))
            secs == add_actions(1, x)
        IN  /\ formValue = x
            /\ formRows = rws
            /\ sections = secs
            /\ deferredDelete = {}
            /\ childWidgets = SeqSet(rws) \cup SectionWidgets(secs)
            /\ formBinds = BindSections(BindAll([k \in BindKeys |-> << >>], rws), secs, 1)
            /\ builds = 1
            /\ adds = 0
            /\ flast = [op |-> "init", prev |-> x, before |-> {}, emitted |-> << x >>]

IdleForm == InitForm /\ formValue = "t1"

NextForm ==
    \/ \E x \in FormObjs : SetFormValue(x)
    \/ \E act \in {"stamp"}, how \in {"proxy", "function"} : AddAction(act, how)
    \/ FormProcessEvents

\* ------------------------------------------------------------------------
\* Action discovery (the action decorator and the mixin's __init__)
\* ------------------------------------------------------------------------

\* The classes the application may define, all with the mixin: Base, its
\* subclasses Left and Right, and Leaf, a subclass of Left
TypeNames == {"Base", "Left", "Right", "Leaf"}

TypeParent(c) ==
    CASE c = "Leaf" -> "Left"
      [] c \in {"Left", "Right"} -> "Base"
      [] OTHER -> ""

\* c.mro() without the mixin and object
RECURSIVE TypeMro(_)
TypeMro(c) == IF c = "" THEN << >> ELSE <<c>> \o TypeMro(TypeParent(c))

\* the methods a class body marks with @action, in the order of the body
ActionNames == {"a", "b"}

Bodies == {<< >>, <<"a">>, <<"b">>, <<"a", "b">>, <<"b", "a">>}

VARIABLES
    types,        \* the classes defined so far, in the order of definition
    marks,        \* marks[c]: the body c was defined with
    actionDicts,  \* actionDicts[c]: whether c.__dict__ has _actions, and that dict
    alast         \* the last operation and the proxies of the instance it made

varsActions == <<types, marks, actionDicts, alast>>

\* the class whose __dict__ holds the _actions that getattr(c, "_actions")
\* finds, "" when hasattr(c, "_actions") is false
dict_holder(ad, c) ==
    LET m == TypeMro(c)
        has == {i \in 1..Len(m) : ad[m[i]].own}
    IN  IF has = {} THEN "" ELSE m[CHOOSE i \in has : \A j \in has : i <= j]

\* Decorator.__set_name__(owner, name)
set_name(ad, own_cls, name) ==
    LET made == IF dict_holder(ad, own_cls) = ""
                THEN [ad EXCEPT ![own_cls] = [own |-> TRUE, items |-> << >>]]
                ELSE ad
        h == dict_holder(made, own_cls)
    IN  [made EXCEPT ![h].items = DictPut(@, name, own_cls)]

\* type.__new__ calls __set_name__ for every marked method of the body
RECURSIVE class_body(_, _, _)
class_body(ad, own_cls, body) ==
    IF body = << >> THEN ad
    ELSE class_body(set_name(ad, own_cls, Head(body)), own_cls, Tail(body))

\* cls._actions.items() as __init__ reads it, empty when hasattr is false
actions_of(ad, c) ==
    IF dict_holder(ad, c) = "" THEN << >> ELSE ad[dict_holder(ad, c)].items

\* class c(parent): with the given body
DefineType(c, body) ==
    /\ \A i \in 1..Len(types) : types[i] # c
    /\ TypeParent(c) = "" \/ \E i \in 1..Len(types) : types[i] = TypeParent(c)
    /\ types' = Append(types, c)
    /\ marks' = [marks EXCEPT ![c] = body]
    /\ actionDicts' = class_body(actionDicts, c, body)
    /\ alast' = [op |-> "define", cls |-> c, proxies |-> << >>]

\* c(): __init__ makes one proxy per entry of c._actions
NewInstance(c) ==
    /\ \E i \in 1..Len(types) : types[i] = c
    /\ alast' = [op |-> "new", cls |-> c, proxies |-> actions_of(actionDicts, c)]
    /\ UNCHANGED <<types, marks, actionDicts>>

InitActions ==
    /\ types = << >>
    /\ marks = [c \in TypeNames |-> << >>]
    /\ actionDicts = [c \in TypeNames |-> [own |-> FALSE, items |-> << >>]]
    /\ alast = [op |-> "init", cls |-> "", proxies |-> << >>]

NextActions ==
    \/ \E c \in TypeNames, body \in Bodies : DefineType(c, body)
    \/ \E c \in TypeNames : NewInstance(c)

\* ------------------------------------------------------------------------
\* The expander list (ExpanderList)
\* ------------------------------------------------------------------------

\* number of expanders ever created
MaxExpanders == 3

\* the spacer widget __init__ puts into container_layout; the expanders are
\* numbered 1, 2, ... in the order of their creation
Spacer == 0

\* titles and explicit sort keys the application passes; NoKey stands for
\* sort_key=None
Titles == {"a", "B", "b"}

NoKey == "None"

SortKeyArgs == {NoKey, "A"}

\* str.lower()
Lower(x) ==
    CASE x = "A" -> "a"
      [] x = "B" -> "b"
      [] OTHER -> x

\* the order of the lower-cased strings under >
Rank(x) == IF x = "a" THEN 1 ELSE 2

VARIABLES
    container_layout,  \* the widgets of container_layout, top to bottom
    sort_keys,         \* the dict sort_keys, as its items in insertion order
    made,              \* number of expanders created so far
    elast              \* the last operation

varsExpander == <<container_layout, sort_keys, made, elast>>

\* QBoxLayout.insertWidget(index, widget): a negative index, or one past the
\* end, appends
insertWidget(lay, idx, x) ==
    IF idx < 0 \/ idx >= Len(lay) THEN Append(lay, x)
    ELSE SubSeq(lay, 1, idx) \o <<x>> \o SubSeq(lay, idx + 1, Len(lay))

\* self.sort_keys[item]
key_of(keys, e) == keys[CHOOSE i \in 1..Len(keys) : keys[i].e = e].key

\* the loop of add_expander over range(count() - 1): the index of the first
\* expander whose lower-cased key is greater, -1 when the loop ends without
\* one
first_greater(lay, keys, key) ==
    LET hits == {i \in 0..(Len(lay) - 2) :
                    /\ lay[i + 1] # Spacer
                    /\ Rank(Lower(key_of(keys, lay[i + 1]))) > Rank(Lower(key))}
    IN  IF hits = {} THEN -1 ELSE CHOOSE i \in hits : \A j \in hits : i <= j

\* add_expander(title, content, sort_key=k)
add_expander(title, k) ==
    /\ made < MaxExpanders
    /\ LET e == made + 1
           key == IF k = NoKey THEN Lower(title) ELSE k
           keys == Append(sort_keys, [e |-> e, key |-> key])
           at == first_greater(container_layout, keys, key)
       IN  /\ sort_keys' = keys
           /\ container_layout' =
                  IF at >= 0 THEN insertWidget(container_layout, at, e)
                  ELSE insertWidget(container_layout, Len(container_layout) - 1, e)
           /\ made' = e
           /\ elast' = [op |-> "add", e |-> e]

\* remove_expander(expander): del self.sort_keys[expander] raises KeyError
\* for an expander without key; none is passed here
remove_expander(e) ==
    /\ \E i \in 1..Len(sort_keys) : sort_keys[i].e = e
    /\ sort_keys' = SelectSeq(sort_keys, LAMBDA r : r.e # e)
    /\ container_layout' = SelectSeq(container_layout, LAMBDA x : x # e)
    /\ elast' = [op |-> "remove", e |-> e]
    /\ UNCHANGED made

\* clear(): takeAt(0) until the layout is empty, the spacer included
clear ==
    /\ container_layout' = << >>
    /\ elast' = [op |-> "clear", e |-> 0]
    /\ UNCHANGED <<sort_keys, made>>

InitExpander ==
    /\ container_layout = << Spacer >>
    /\ sort_keys = << >>
    /\ made = 0
    /\ elast = [op |-> "init", e |-> 0]

NextExpander ==
    \/ \E title \in Titles, k \in SortKeyArgs : add_expander(title, k)
    \/ \E e \in 1..MaxExpanders : remove_expander(e)
    \/ clear

\* ------------------------------------------------------------------------
\* Specifications: one per part of the library; the other parts stand still
\* ------------------------------------------------------------------------

vars == <<varsBinding, varsRegistry, varsList, varsSerial, varsReflect, varsProxy, varsForm,
         varsActions, varsExpander>>

IdleBinding == InitBinding /\ kind = "TextWidget" /\ hasSetter

IdleList == InitList /\ itemClass = "str"

Init == InitBinding /\ InitRegistry /\ IdleList /\ InitSerial /\ InitReflect /\ InitProxy /\ IdleForm /\ InitActions /\ InitExpander

Next == NextBinding /\ UNCHANGED <<varsRegistry, varsList, varsSerial, varsReflect, varsProxy, varsForm, varsActions, varsExpander>>

Spec == Init /\ [][Next]_vars

InitR == InitRegistry /\ IdleBinding /\ IdleList /\ InitSerial /\ InitReflect /\ InitProxy /\ IdleForm /\ InitActions /\ InitExpander

NextR == NextRegistry /\ UNCHANGED <<varsBinding, varsList, varsSerial, varsReflect, varsProxy, varsForm, varsActions, varsExpander>>

SpecRegistry == InitR /\ [][NextR]_vars

InitL == InitList /\ IdleBinding /\ InitRegistry /\ InitSerial /\ InitReflect /\ InitProxy /\ IdleForm /\ InitActions /\ InitExpander

NextL == NextList /\ UNCHANGED <<varsBinding, varsRegistry, varsSerial, varsReflect, varsProxy, varsForm, varsActions, varsExpander>>

SpecList == InitL /\ [][NextL]_vars

InitS == InitSerial /\ IdleBinding /\ InitRegistry /\ IdleList /\ InitReflect /\ InitProxy /\ IdleForm /\ InitActions /\ InitExpander

NextS == NextSerial /\ UNCHANGED <<varsBinding, varsRegistry, varsList, varsReflect, varsProxy, varsForm, varsActions, varsExpander>>

SpecSerial == InitS /\ [][NextS]_vars

NextD == NextLoad /\ UNCHANGED <<varsBinding, varsRegistry, varsList, varsReflect, varsProxy, varsForm, varsActions, varsExpander>>

SpecLoad == InitS /\ [][NextD]_vars

NextF == NextReflect /\ UNCHANGED <<varsBinding, varsRegistry, varsList, varsSerial, varsProxy, varsForm, varsActions, varsExpander>>

SpecReflect == InitS /\ [][NextF]_vars

NextP == NextProxy /\ UNCHANGED <<varsBinding, varsRegistry, varsList, varsReflect, varsForm, varsActions, varsExpander>>

SpecProxy == InitS /\ [][NextP]_vars

InitG == InitForm /\ IdleBinding /\ InitRegistry /\ IdleList /\ InitSerial /\ InitReflect /\ InitProxy /\ InitActions /\ InitExpander

NextG == NextForm /\ UNCHANGED <<varsBinding, varsRegistry, varsList, varsSerial, varsReflect, varsProxy, varsActions, varsExpander>>

SpecForm == InitG /\ [][NextG]_vars

NextA == NextActions /\ UNCHANGED <<varsBinding, varsRegistry, varsList, varsSerial, varsReflect, varsProxy, varsForm, varsExpander>>

SpecActions == InitS /\ [][NextA]_vars

NextE == NextExpander /\ UNCHANGED <<varsBinding, varsRegistry, varsList, varsSerial, varsReflect, varsProxy, varsForm, varsActions>>

SpecExpander == InitS /\ [][NextE]_vars

\* ------------------------------------------------------------------------
\* Properties of the binding
\* ------------------------------------------------------------------------

Bound(w) == \E i \in 1..Len(binds["o1"]) : binds["o1"][i] = w

\* the model follows every nested call to its end
NoOverflow == ~last.overflow

\* C1: with a binding installed on a property that has a setter, assigning
\* the value the getter returns calls no raw setter, emits no `changed` and
\* assigns no bound control
C1_SetGetIsNoOp ==
    (last.op = "set" /\ wrapped /\ hasSetter /\ last.v = last.pre)
        => /\ last.calls = << >>
           /\ last.changed = 0
           /\ \A w \in Widgets : last.pushes[w] = 0
           /\ attr["o1"] = last.pre

C1_Witness ==
    /\ last.op = "set" /\ wrapped /\ hasSetter /\ last.v = last.pre
    /\ \E w \in Widgets : Bound(w) /\ shown[w] # last.v

\* C2: one assignment from code of a value different from the current one
\* assigns each bound control exactly once, and the control then displays
\* the assigned value
C2_PushedExactlyOnce ==
    (last.op = "set" /\ wrapped /\ hasSetter /\ last.v # last.pre)
        => \A w \in Widgets :
               Bound(w) => last.pushes[w] = 1 /\ shown[w] = last.v

\* C3: a user edit of a bound control to a new value v calls the raw setter
\* exactly once, with v, and neither assigns the originating control nor
\* makes it emit value_changed again
C3_EditSetsOnceNoFeedback ==
    (last.op = "edit" /\ Bound(last.w) /\ hasSetter /\ last.v # last.pre)
        => /\ last.calls = <<last.v>>
           /\ last.pushes[last.w] = 0
           /\ last.emits[last.w] = 1

\* C7: for a property without a setter, the change notification of a bound
\* control calls no setter, emits no `changed` and leaves the other bound
\* controls alone
C7_ReadOnlyNeverBoundForInput ==
    (last.op = "edit" /\ Bound(last.w) /\ ~hasSetter)
        => /\ last.calls = << >>
           /\ last.changed = 0
           /\ \A u \in Widgets : last.pushes[u] = 0

\* C8: every from_property call for the property succeeds and appends its
\* control to the bound list; the raw property is wrapped exactly once and
\* the wrapper's source is the raw property
C8_InstallIsIdempotent ==
    last.op = "from_property"
        => /\ last.err = "none"
           /\ Bound(last.w)
           /\ wrapCount = 1
           /\ sourceProp = "raw"

\* C9: once a bound control's row was removed (deleteLater) or the control
\* was destroyed, no attribute assignment reads or assigns its value
C9_TornDownControlsNotAddressed ==
    \A w \in Widgets :
        (/\ wstate[w] \in {"pending", "destroyed"}
         /\ hasSetter
         /\ last.op \in {"set", "edit"})
            => last.reads[w] = 0 /\ last.pushes[w] = 0

\* C10: when an assignment of a new value (from code or from a control)
\* returns, the getter yields the assigned value, every bound control
\* displays it, and the raw setter was called with no other value
C10_FullyPropagated ==
    (/\ last.op \in {"set", "edit"}
     /\ wrapped /\ hasSetter
     /\ last.op = "edit" => Bound(last.w)
     /\ last.v # last.pre)
        => /\ attr["o1"] = last.v
           /\ \A w \in Widgets : Bound(w) => shown[w] = last.v
           /\ \A i \in 1..Len(last.calls) : last.calls[i] = last.v

\* C24: every assignment to a bound property, from code or from a control
\* (edited by the user, assigned by code, or moved by a change of its
\* range), comes to an end: the chain of nested wrapped_setter calls it
\* causes never reaches the depth at which the model gives up
C24_FeedbackTerminates ==
    last.op \in {"set", "edit", "widgetSet", "bindNew", "min", "max", "decimals"}
        => ~last.overflow

C24_Witness ==
    /\ last.op \in {"set", "edit"} /\ wrapped /\ ~last.overflow
    /\ kind = "ColorWidget"
    /\ Cardinality({w \in Widgets : Bound(w) /\ w \in conn}) >= 2
    /\ Cardinality({w \in Widgets : w \in conn /\ last.emits[w] >= 1}) >= 2

\* ------------------------------------------------------------------------
\* Properties of the control registry
\* ------------------------------------------------------------------------

HasKey(dict, k) == \E i \in 1..Len(dict) : dict[i].key = k
Lookup(dict, k) == (CHOOSE i \in 1..Len(dict) : dict[i].key = k)

\* C5: with a control registered for Base and one for Derived, resolving
\* Derived returns the control registered for Derived
C5_DerivedControlWins ==
    (/\ rlast.op = "resolve" /\ rlast.t = "Derived"
     /\ HasKey(known, "Base") /\ HasKey(known, "Derived"))
        => rlast.result = known[Lookup(known, "Derived")].cls

\* ------------------------------------------------------------------------
\* Properties of the list editor
\* ------------------------------------------------------------------------

\* C6: the delete button of the row at index k leaves the editor with the
\* value it had before, index k removed and the rest in their order, and that
\* is the value it emits; "Add value" appends the item default to the value
C6_RemoveKeepsOrder ==
    /\ llast.op = "remove" =>
           /\ value(rows, rowValue) = RemoveAt(llast.pre, llast.k)
           /\ llast.emits = << value(rows, rowValue) >>
    /\ (llast.op = "add" /\ llast.err = "none") =>
           /\ value(rows, rowValue) = Append(llast.pre, ItemDefault(itemClass))
           /\ llast.emits = << value(rows, rowValue) >>

\* three rows that differ from their neighbours, the middle one removed
C6_Witness ==
    /\ llast.op = "remove" /\ llast.k = 2 /\ Len(llast.pre) = 3
    /\ llast.pre[1] # llast.pre[2] /\ llast.pre[2] # llast.pre[3]

\* ------------------------------------------------------------------------
\* Properties of the serializer
\* ------------------------------------------------------------------------

Encoded(a) == ~DontEncode("Doc", a) /\ HasFset("Doc", a)

DocProps == {get_properties("Doc")[i] : i \in 1..Len(get_properties("Doc"))}

\* C4: from_dict of the tree of an instance returns an instance of the same
\* class whose attributes equal the original's; checked here for the
\* attributes the tree carries and a setter can write
C4_RoundTrip ==
    slast.op = "roundtrip" =>
        /\ slast.copy.t = "inst" /\ slast.copy.c = doc.c
        /\ \A a \in DocProps :
               Encoded(a) => GetKV(slast.copy.kv, a) = GetKV(doc.kv, a)

\* C11: from_dict of a tree whose discriminator names a class that is not in
\* the known types of the target class raises, and constructs no instance
KnownNames(cls) == {KnownTypes(cls)[i] : i \in 1..Len(KnownTypes(cls))}

C11_UnknownSubtypeRaises ==
    (/\ slast.op = "load"
     /\ HasKeyKV(slast.tree.kv, "__class__")
     /\ GetKV(slast.tree.kv, "__class__").c \notin KnownNames(slast.cls))
        => slast.copy.t = "raise"

\* C12: a stored scalar for the Mode attribute becomes the member with that
\* value (unless a later entry of the tree, an action entry that is no
\* dictionary, fails); when no member has it, from_dict raises ValueError and
\* returns no instance
C12_EnumByValueOrRaise ==
    (/\ slast.op = "load" /\ slast.cls = "Doc"
     /\ HasKeyKV(slast.tree.kv, "mode"))
        => LET v == GetKV(slast.tree.kv, "mode").n
           IN  IF v \in ModeValues
               THEN \/ /\ slast.copy.t = "inst"
                       /\ GetKV(slast.copy.kv, "mode") = EnumV("Mode", v)
                    \/ slast.copy = Raise("AttributeError")
               ELSE slast.copy = Raise("ValueError")

\* a tree that stores 3 for the Mode attribute has been loaded
C12_Witness ==
    /\ slast.op = "load" /\ slast.cls = "Doc"
    /\ HasKeyKV(slast.tree.kv, "mode")
    /\ GetKV(slast.tree.kv, "mode").n \notin ModeValues
    /\ HasKeyKV(slast.tree.kv, "name")

\* C13: resolution raises ValueError exactly when no registered value type
\* matches the requested type, and otherwise returns the control class of one
\* of the matching entries
Matching(t) == {i \in 1..Len(known) : is_subtype(t, known[i].key)}

C13_RaisesIffNoCandidate ==
    rlast.op = "resolve" =>
        IF Matching(rlast.t) = {} THEN rlast.result = NoWidgetClass
        ELSE rlast.result \in {known[i].cls : i \in Matching(rlast.t)}

\* a type nothing is registered for has been resolved after an application
\* class was defined
C13_Witness ==
    /\ rlast.op = "resolve" /\ Matching(rlast.t) = {}
    /\ Len(known) > BuiltinClasses

\* C14: when the stored value of one attribute cannot be coerced, from_dict
\* still returns an instance, with every other settable attribute of the tree
\* written
C14_OtherAttributesSurvive ==
    (/\ slast.op = "load" /\ slast.cls = "Doc"
     /\ HasKeyKV(slast.tree.kv, "mode")
     /\ GetKV(slast.tree.kv, "mode").n \notin ModeValues)
        => /\ slast.copy.t = "inst"
           /\ HasKeyKV(slast.tree.kv, "name") =>
                  GetKV(slast.copy.kv, "name") = GetKV(slast.tree.kv, "name")

\* C15: a key of the tree that is neither a property nor an action of the
\* class changes nothing: from_dict returns what it returns for the tree
\* without that key, and an instance when the other entries can be loaded
WithoutKey(tree, k) == [tree EXCEPT !.kv = SelectSeq(@, LAMBDA e : e.k # k)]

Loadable(tree) ==
    /\ HasKeyKV(tree.kv, "mode") => GetKV(tree.kv, "mode").n \in ModeValues
    /\ HasKeyKV(tree.kv, "resize") => GetKV(tree.kv, "resize").t = "dict"

C15_UnknownKeysIgnored ==
    (slast.op = "load" /\ HasKeyKV(slast.tree.kv, "extra"))
        => /\ slast.copy = from_dict(slast.cls, WithoutKey(slast.tree, "extra"))
           /\ Loadable(slast.tree) => slast.copy.t = "inst"

\* a Doc tree with a property, an action and an unknown key has been loaded
C15_Witness ==
    /\ slast.op = "load" /\ slast.cls = "Doc" /\ slast.copy.t = "inst"
    /\ HasKeyKV(slast.tree.kv, "extra")
    /\ HasKeyKV(slast.tree.kv, "name")
    /\ HasKeyKV(slast.tree.kv, "resize")

\* ------------------------------------------------------------------------
\* Properties of reflection
\* ------------------------------------------------------------------------

\* the most derived class up to n that declares p, and the most ancestral
Declares(n, p) == \E i \in 1..Len(decl[n]) : decl[n][i] = p
LastDecl(n, p) == CHOOSE k \in 1..n : Declares(k, p) /\ \A m \in (k + 1)..n : ~Declares(m, p)
FirstDecl(n, p) == CHOOSE k \in 1..n : Declares(k, p) /\ \A m \in 1..(k - 1) : ~Declares(m, p)
PosIn(n, p) == CHOOSE i \in 1..Len(decl[n]) : decl[n][i] = p

\* C16: get_properties of a class has one entry for every name the class or
\* an ancestor declares, mapped to the most derived declaration, in the order
\* of the names' first declarations; the classes are left as they were
C16_MergedAncestralToDerived ==
    refl.op = "reflect" =>
        LET ps == refl.props
            n == refl.n
        IN  /\ decl = refl.was
            /\ ps = properties_of(decl, n)
            /\ {ps[i].key : i \in 1..Len(ps)} = {p \in PropNames : \E k \in 1..n : Declares(k, p)}
            /\ \A i, j \in 1..Len(ps) : i # j => ps[i].key # ps[j].key
            /\ \A i \in 1..Len(ps) : ps[i].cls = LastDecl(n, ps[i].key)
            /\ \A i, j \in 1..Len(ps) :
                   i < j =>
                       LET a == FirstDecl(n, ps[i].key)
                           b == FirstDecl(n, ps[j].key)
                       IN  a < b \/ (a = b /\ PosIn(a, ps[i].key) < PosIn(b, ps[j].key))

\* the most derived class redeclares the first name of its grandparent and
\* adds a name of its own
C16_Witness ==
    /\ refl.op = "reflect" /\ refl.n = 3
    /\ Len(decl[1]) = 2 /\ Len(decl[3]) = 2
    /\ decl[3][2] = decl[1][1]
    /\ ~Declares(1, decl[3][1]) /\ ~Declares(2, decl[3][1])
    /\ Declares(2, decl[1][2])

\* C17: PropertyForm is returned only when no other control class matches;
\* otherwise the result is the match other than PropertyForm that the ranking
\* puts first: the one with the least ancestry-chain length, and of several
\* with that length the one entered in the registry first
OtherMatches(t) == {known[i].cls : i \in Matching(t)} \ {PropertyFormClass}

\* where the registry holds control class c
PlaceOf(c) == CHOOSE i \in 1..Len(known) : known[i].cls = c

RankedBefore(c, d) ==
    \/ MroLen(classes, c) < MroLen(classes, d)
    \/ MroLen(classes, c) = MroLen(classes, d) /\ PlaceOf(c) < PlaceOf(d)

C17_FormLastThenMostSpecific ==
    (rlast.op = "resolve" /\ Matching(rlast.t) # {}) =>
        IF OtherMatches(rlast.t) = {} THEN rlast.result = PropertyFormClass
        ELSE /\ rlast.result \in OtherMatches(rlast.t)
             /\ \A c \in OtherMatches(rlast.t) \ {rlast.result} :
                    RankedBefore(rlast.result, c)

\* PropertyForm matches the resolved type and so do two other control
\* classes with ancestry chains of different lengths, one of them longer than
\* the chain of PropertyForm
C17_Witness ==
    /\ rlast.op = "resolve"
    /\ \E i \in Matching(rlast.t) : known[i].cls = PropertyFormClass
    /\ \E c, e \in OtherMatches(rlast.t) :
           /\ MroLen(classes, c) < MroLen(classes, e)
           /\ MroLen(classes, PropertyFormClass) < MroLen(classes, e)

\* a class that certainly declares its own value getter: its value type is
\* not the one it would inherit
Declared(c) == classes[c].vt # ValueHint(classes, classes[c].parent)

\* C18: every control class that declares a value type and has been through
\* a resolution call is held by the registry exactly once, under its own
\* declared value type
C18_RegisteredOnceAndKept ==
    \A c \in 1..Len(classes) :
        (Declared(c) /\ \A i \in 1..Len(deferred) : deferred[i] # c) =>
            /\ \E i \in 1..Len(known) : known[i] = [key |-> classes[c].vt, cls |-> c]
            /\ Cardinality({i \in 1..Len(known) : known[i].cls = c}) = 1

\* C19: the tree of to_dict has one entry for every property that is not
\* flagged dont_encode, holding the property's current value, one entry for
\* every action object, holding the current value of each of its argument
\* properties, and the entry "__class__" with the name of the instance's
\* class, in first place, exactly when include_class_name is set
Keys(kv) == {kv[i].k : i \in 1..Len(kv)}

C19_TreeKeys ==
    (slast.op = "roundtrip" /\ ~slast.json) =>
        LET kv == slast.tree.kv
            props == {a \in DocProps : ~DontEncode("Doc", a)}
            acts == {doc.xs[i].c : i \in 1..Len(doc.xs)}
        IN  /\ slast.tree.t = "dict"
            /\ Keys(kv) = props \cup acts
                            \cup (IF slast.include THEN {"__class__"} ELSE {})
            /\ Len(kv) = Cardinality(Keys(kv))
            /\ \A a \in props : GetKV(kv, a) = GetKV(doc.kv, a)
            /\ \A i \in 1..Len(doc.xs) :
                   LET sub == GetKV(kv, doc.xs[i].c)
                       ann == Annotated(doc.xs[i].c)
                   IN  /\ sub.t = "dict"
                       /\ Keys(sub.kv) = {ann[j] : j \in 1..Len(ann)}
                       /\ Len(sub.kv) = Len(ann)
                       /\ \A j \in 1..Len(ann) :
                              GetKV(sub.kv, ann[j]) = GetKV(doc.xs[i].kv, ann[j])
            /\ slast.include => kv[1] = Entry("__class__", StrV(doc.c))

C19_Witness ==
    /\ slast.op = "roundtrip" /\ ~slast.json /\ slast.include
    /\ GetKV(doc.kv, "secret") = StrV("s")
    /\ GetKV(doc.kv, "count") = IntV(1)
    /\ GetKV(doc.xs[1].kv, "factor") = IntV(5)
    /\ GetKV(GetKV(slast.tree.kv, "resize").kv, "factor") = IntV(5)

\* C20: a call of the proxy invokes the operation once, with the owning
\* instance as self and, for every other parameter, the value last written
\* to its entry of args, or the parameter's default (None when it has none)
\* if nothing was written
C20_CallPassesOwnerAndSlots ==
    plast.op = "call" =>
        /\ Len(plast.invoked) = 1
        /\ LET kw == plast.invoked[1]
           IN  /\ Keys(kw) = ParamSet("resize")
               /\ Len(kw) = Cardinality(ParamSet("resize"))
               /\ GetKV(kw, "self") = OwnerV
               /\ \A p \in ParamSet("resize") \ {"self"} :
                      GetKV(kw, p) = IF plast.assigned[p] = Unassigned
                                     THEN ParamDefault(p)
                                     ELSE plast.assigned[p]

\* ------------------------------------------------------------------------
\* Properties of the form
\* ------------------------------------------------------------------------

\* C21: after another instance was assigned to a built form, the rows are
\* one new control per property of the new instance that has a control, in
\* the order of get_properties, no widget the form held before is a child
\* of the form or in any binds list, and value_changed was emitted with the
\* new instance
C21_RebuiltFromScratch ==
    (flast.op = "assign" /\ flast.prev # formValue) =>
        LET cls == FormClass(formValue)
            vis == SelectSeq(FormProps(cls), LAMBDA a : ~WidgetNone(cls, a))
        IN  /\ [i \in 1..Len(formRows) |-> formRows[i].attr] = vis
            /\ \A i \in 1..Len(formRows) :
                   /\ formRows[i].of = formValue
                   /\ formRows[i] \notin flast.before
                   /\ formRows[i] \in SeqSet(formBinds[KeyOf(formRows[i])])
            /\ \A w \in flast.before :
                   /\ w \notin childWidgets
                   /\ \A k \in BindKeys : w \notin SeqSet(formBinds[k])
            /\ flast.emitted = << formValue >>

\* C22: the value from_dict writes to Shape.size, declared int, is an int:
\* the stored value itself when that is an int, and otherwise what int()
\* makes of it
C22_WrittenValueHasDeclaredType ==
    (slast.op = "load" /\ slast.cls \in {"Shape", "Circle"}) =>
        /\ slast.copy.t = "inst"
        /\ LET raw == GetKV(slast.tree.kv, "size")
               got == GetKV(slast.copy.kv, "size")
           IN  /\ isinstance(got, Hint(slast.copy.c, "size"))
               /\ isinstance(raw, Hint(slast.copy.c, "size")) => got = raw

\* ------------------------------------------------------------------------
\* Properties of action discovery
\* ------------------------------------------------------------------------

Marks(c, n) == \E i \in 1..Len(marks[c]) : marks[c][i] = n

\* the actions of c: every name marked by c or by an ancestor of c, each
\* with the nearest class of c's ancestry that marks it
OwnAndInherited(c) ==
    LET m == TypeMro(c)
    IN  {[key |-> n, cls |-> m[CHOOSE i \in 1..Len(m) :
                                  /\ Marks(m[i], n)
                                  /\ \A j \in 1..(i - 1) : ~Marks(m[j], n)]] :
            n \in {k \in ActionNames : \E i \in 1..Len(m) : Marks(m[i], k)}}

\* C23: the actions of every defined class, and the proxies of a new
\* instance of it, are the methods marked on the class or on its ancestors
\* and no others
C23_ActionsArePerType ==
    /\ \A i \in 1..Len(types) :
           /\ SeqSet(actions_of(actionDicts, types[i])) = OwnAndInherited(types[i])
           /\ Len(actions_of(actionDicts, types[i]))
                  = Cardinality(OwnAndInherited(types[i]))
    /\ alast.op = "new" => SeqSet(alast.proxies) = OwnAndInherited(alast.cls)

\* ------------------------------------------------------------------------
\* Properties of the expander list
\* ------------------------------------------------------------------------

Expanders == SelectSeq(container_layout, LAMBDA x : x # Spacer)

Keyed == {sort_keys[i].e : i \in 1..Len(sort_keys)}

\* C25: the expanders of the container are in non-decreasing order of their
\* lower-cased sort keys, expanders with equal keys in the order they were
\* added, and the expanders that have a sort key are the expanders of the
\* container
C25_SortedAndKeyed ==
    /\ Keyed = SeqSet(Expanders)
    /\ \A i \in 1..Len(Expanders) : \A j \in (i + 1)..Len(Expanders) :
           LET ki == Rank(Lower(key_of(sort_keys, Expanders[i])))
               kj == Rank(Lower(key_of(sort_keys, Expanders[j])))
           IN  /\ ki <= kj
               /\ ki = kj => Expanders[i] < Expanders[j]

====
